---- MODULE Spec2Model ----
(***************************************************************************)
(* Session coordinator of the realtime transcription backend:              *)
(*   app/services/transcription.py  TranscriptionService (the registry of  *)
(*       client dicts and the lifecycle of their AudioProcessor engines)   *)
(*   app/api/websocket.py           the WebSocket handler, the REST config *)
(*       endpoint and the engine callback send_transcription_result        *)
(*                                                                         *)
(* Scheduling: one asyncio event loop.  A coroutine runs without           *)
(* interruption from one await to the next, so every action below is the   *)
(* code between two awaits.  An awaited operation that returns is followed *)
(* by a suspension point; one that raises continues in the except clause   *)
(* within the same step.                                                   *)
(*                                                                         *)
(* app/audio/audio_processor.py and app/config.py are not part of the      *)
(* sources at hand; the engine (start, stop, construction) and the         *)
(* supported sets follow the Engine Adapter Boundary of the specification. *)
(***************************************************************************)
EXTENDS Naturals, Sequences, FiniteSets, TLC

\* ------------------------------------------------------------ bounds
\* AudioProcessor objects constructed during one run.
MaxEngines == 2

\* Recognised utterances not yet handed to the callback, over all engines.
MaxPending == 1

\* Characters of a text given to process_text.
MaxTextLen == 2

\* Keywords in the list given to process_text.
MaxKeywords == 2

\* Audio frames in a client's recording.
MaxFrames == 3

\* ------------------------------------------------------------ universe
Ids == {"a", "b"}                 \* client ids carried in the URL
Conns == {"w1", "w2"}             \* WebSocket connections (handler coroutines)
Procs == Conns \cup {"rest"}      \* plus the REST endpoint POST /ws/client/{id}/config

\* The client id a connection may present: w2 may reuse w1's id or bring its own.
ConnIds(w) == IF w = "w1" THEN {"a"} ELSE Ids

NONE == "None"                    \* Python's None
NoConn == "noconn"

AVAILABLE_LANGUAGES == {"zh", "en"}
AVAILABLE_MODELS == {"tiny", "base"}

\* A config dict, of a config message or of a REST body, by the keys it may
\* carry; this one carries none.
NoConfig == [language |-> NONE, model_type |-> NONE, model |-> NONE, target_language |-> NONE]

\* The config messages a client sends, by the fields they carry ("xx" and "xl"
\* are outside the supported sets).
ConfigMessages ==
    { [NoConfig EXCEPT !.language = "en"],
      [NoConfig EXCEPT !.language = "xx"],
      [NoConfig EXCEPT !.model_type = "xl"],
      [NoConfig EXCEPT !.target_language = "ja"] }

\* The bodies posted to the REST endpoint that reach the service.  A language
\* or a model that is a non-empty string makes line 135 or 139 read
\* AVAILABLE_LANGUAGES off the request dict, and the request ends in an
\* AttributeError before the call; an absent one, and the empty string, which
\* is falsy, pass lines 135-141.
RestBodies ==
    { NoConfig,
      [NoConfig EXCEPT !.target_language = "ja"],
      [NoConfig EXCEPT !.language = ""],
      [NoConfig EXCEPT !.language = "", !.target_language = "ja"],
      [NoConfig EXCEPT !.model = ""],
      [NoConfig EXCEPT !.model_type = ""] }

\* Sizes in bytes of the audio frames a client sends.
FrameSizes == {5, 10, 20}

\* A client's recording: its n-th frame, of the n-th size.
Frames(sizes) == [n \in 1..Len(sizes) |-> [n |-> n, size |-> sizes[n]]]

\* Recordings of up to MaxFrames frames, no two of one size: the size of a
\* frame tells which frame it is.
Recordings ==
    {Frames(sizes) : sizes \in {q \in UNION {[1..k -> FrameSizes] : k \in 0..MaxFrames} :
                                   \A i, j \in 1..Len(q) : q[i] = q[j] => i = j}}

\* the recording of a client that sends one frame
OneFrame == Frames(<<10>>)

\* the frame the handler is given is the one the client sent last
ReceiveLast(recording) == recording[Len(recording)]

\* websocket.receive(): the frame the client sent first
Receive(recording) == Head(recording)

\* float('inf'), above every size and every sum of sizes
INF == 1000

\* None as an instant; time.time() is 1 or more
NoTime == 0

\* dict.get(key, default)
Get(m, key, default) == IF m[key] = NONE THEN default ELSE m[key]

\* a or b: b when a is None or the empty string, which are falsy
Or(a, b) == IF a = NONE \/ a = "" THEN b ELSE a

HasKey(ac, id) == \E i \in 1..Len(ac) : ac[i][1] = id

\* active_connections[id], NoConn where Python raises KeyError
Conn(ac, id) ==
    IF HasKey(ac, id) THEN ac[CHOOSE i \in 1..Len(ac) : ac[i][1] = id][2] ELSE NoConn

\* active_connections[id] = w: an existing key keeps its place
SetConn(ac, id, w) ==
    IF HasKey(ac, id)
    THEN [i \in 1..Len(ac) |-> IF ac[i][1] = id THEN <<id, w>> ELSE ac[i]]
    ELSE Append(ac, <<id, w>>)

\* every connection entry is dropped
DelConnAll(ac, id) == <<>>

\* if client_id in active_connections: del active_connections[client_id]
DelConn(ac, id) == SelectSeq(ac, LAMBDA e : e[1] # id)

VARIABLES
    clients,             \* TranscriptionService.clients: id -> dict ref, 0 = absent
    dicts,               \* the client dicts on the heap: ref -> dict
    engines,             \* the AudioProcessor objects on the heap: ref -> object
    made,                \* how many AudioProcessor objects were constructed so far
    active_connections,  \* websocket.py active_connections: <<id, connection>> in
                         \* insertion order
    audio_stats,         \* websocket.py audio_stats: id -> its statistics dict
    audio,               \* per connection: the frames its client has still to send
    sent,                \* the transcription messages the step just taken sent:
                         \* <<connection, id whose engine recognised the text, message>>
    pc,                  \* per coroutine: where it is suspended
    wid,                 \* per connection: the client_id of its handler
    client_state,        \* per connection: WebSocket.client_state of its socket
    client_keys,         \* the keys of TranscriptionService.clients in dict order
    frame,               \* per coroutine: locals of the service call in progress
    ret,                 \* per coroutine: what the last service call returned
    cb,                  \* the send_transcription_result coroutine in flight
    tp,                  \* one call of TextProcessor.process_text: arguments and result
    has_context,         \* SummaryContextService.has_context
    context,             \* SummaryContextService.context: the dict the attribute refers to
    writer,              \* set_context / clear_context on the event loop thread
    reader               \* _call_gemini on the executor thread: what it has read so far

sessionVars == <<clients, dicts, engines, made, active_connections, audio_stats, audio, sent,
                 pc, wid, client_state, client_keys, frame, ret, cb>>

contextVars == <<has_context, context, writer, reader>>

vars == <<sessionVars, tp, contextVars>>

Refs == 1..MaxEngines

NoDict == [processor |-> 0, language |-> NONE, model_type |-> NONE,
           target_language |-> NONE, keywords |-> <<>>]

NoEngine == [id |-> NONE, language |-> NONE, model_type |-> NONE,
             running |-> FALSE, pending |-> FALSE, heard |-> 0]

\* no entry in audio_stats
NoStats == [present |-> FALSE, first_chunk_time |-> NoTime, last_chunk_time |-> NoTime,
            total_chunks |-> 0, total_bytes |-> 0, max_chunk_size |-> 0,
            min_chunk_size |-> INF]

\* lines 214-221: the entry a connecting handler stores
NewStats == [NoStats EXCEPT !.present = TRUE]

\* lines 283-292: one frame of size bytes is counted at instant now
UpdateStats(stats, size, now) ==
    [stats EXCEPT !.first_chunk_time = IF @ = NoTime THEN now ELSE @,
                  !.last_chunk_time = now,
                  !.total_chunks = @ + 1,
                  !.total_bytes = @ + size,
                  !.max_chunk_size = IF size > @ THEN size ELSE @,
                  !.min_chunk_size = IF size < @ THEN size ELSE @]

NoCfg == [error |-> TRUE, language |-> NONE, model_type |-> NONE,
          target_language |-> NONE, processor_running |-> FALSE, keywords |-> <<>>]

\* trace lists the engine operations the call invoked: <<operation, engine, outcome>>,
\* the outcome "ok", "failed" (failure returned) or "raised"; invalid says the call was given a language or model outside the supported sets.
NoArgs == [language |-> NONE, model_type |-> NONE, target_language |-> NONE]

\* msg is the config of the client's config message the handler is working on,
\* n the number of the audio frame process_audio was given, todo the ids
\* cleanup() has still to unregister
NoFrame == [op |-> NONE, id |-> NONE, client |-> 0, processor |-> 0, new_processor |-> 0,
            invalid |-> FALSE, trace |-> <<>>, msg |-> NoConfig, n |-> 0, todo |-> <<>>]

NoRet == [op |-> NONE, id |-> NONE, args |-> NoArgs, result |-> FALSE,
          before |-> NoCfg, cfg |-> NoCfg, handle |-> 0]

\* the callback coroutine: at is "idle", "enrich" (awaiting process_text) or
\* "sent" (awaiting send_json); origin is the id whose engine recognised the
\* text, cur the client of the iteration, todo the rest of the snapshot
NoCb == [at |-> "idle", origin |-> NONE, cur |-> NONE, todo |-> <<>>,
         source_language |-> NONE, target_language |-> NONE]

\* ------------------------------------------------------------ text_processor.py
\* Texts are sequences of characters; " " is whitespace, "K" is the upper case of "k".
Chars == {"K", "k", "x", " "}

\* None given for a list argument (history, keywords)
NoneList == << <<"None">> >>

\* str.lower()
LowerChar(c) == IF c = "K" THEN "k" ELSE c

Lower(t) == [i \in 1..Len(t) |-> LowerChar(t[i])]

\* not text or not text.strip()
IsBlank(t) == \A i \in 1..Len(t) : t[i] = " "

\* k in t
IsSubstring(k, t) ==
    \E i \in 0..Len(t) : i + Len(k) <= Len(t) /\ SubSeq(t, i + 1, i + Len(k)) = k

\* lines 159-162: the keywords that occur in the text, compared in lower case,
\* in the order of the keyword list
DirectMatches(keywords, text) ==
    SelectSeq(keywords, LAMBDA k : IsSubstring(Lower(k), Lower(text)))

\* The keys a result dict may carry.
ResultKeys == {"refined_text", "translation", "is_keyword_match", "matched_keywords",
               "match_reason", "is_continuation", "continuation_reason",
               "context_enhanced", "success", "error"}

\* A result dict: keys is the set of keys present; the field of an absent key
\* holds the filler of its type.
NoResult ==
    [keys |-> {}, refined_text |-> <<>>, translation |-> <<>>, is_keyword_match |-> FALSE,
     matched_keywords |-> <<>>, match_reason |-> "", is_continuation |-> FALSE,
     continuation_reason |-> "", context_enhanced |-> FALSE, success |-> FALSE, error |-> ""]

\* lines 58-65, 69-76, 105-113, 260-267: the dict the failure paths build
Degraded(text) ==
    [NoResult EXCEPT !.keys = {"refined_text", "translation", "is_keyword_match",
                               "is_continuation", "continuation_reason"},
                     !.refined_text = text]

\* lines 226-239: a key the parsed object lacks gets its default
FillDefaults(obj, text) ==
    [obj EXCEPT !.keys = @ \cup {"refined_text", "translation", "is_keyword_match",
                                 "matched_keywords", "match_reason", "is_continuation",
                                 "continuation_reason"},
                !.refined_text = IF "refined_text" \in obj.keys THEN @ ELSE text]

\* the direct match is never taken
KeywordOverrideNever(result, keywords, text) == result

\* lines 241-246: a direct match overrides a model that reported no match;
\* direct_matches exists only when the keyword list was given and not empty
KeywordOverride(result, keywords, text) ==
    IF keywords # NoneList /\ keywords # <<>> /\ DirectMatches(keywords, text) # <<>>
       /\ ~result.is_keyword_match
    THEN [result EXCEPT !.is_keyword_match = TRUE,
                        !.matched_keywords = DirectMatches(keywords, text),
                        !.match_reason = "direct"]
    ELSE result

\* _call_gemini (lines 115-267): [raised, result].  resp is what the model
\* adapter does: "raise" (generate_content raises), "no_text" (response.text
\* raises, in the try and again in the except clause's log line), "malformed"
\* (json.loads or the key checks raise), or "json" with the parsed object.
CallGemini(text, history, keywords, has_summary_context, resp) ==
    IF history = NoneList \/ history = <<>>
    THEN \* lines 180-182: history[-1] in the prompt raises TypeError / IndexError
         [raised |-> TRUE, error |-> "history", result |-> NoResult]
    ELSE IF resp.kind \in {"raise", "no_text"}
    THEN [raised |-> TRUE, error |-> resp.kind, result |-> NoResult]
    ELSE IF resp.kind = "malformed"
    THEN [raised |-> FALSE, error |-> "",
          result |-> [Degraded(text) EXCEPT !.keys = @ \cup {"context_enhanced"},
                                            !.context_enhanced = has_summary_context]]
    ELSE [raised |-> FALSE, error |-> "",
          result |-> [KeywordOverride(FillDefaults(resp.obj, text), keywords, text)
                        EXCEPT !.keys = @ \cup {"context_enhanced"},
                               !.context_enhanced = has_summary_context]]

\* process_text (lines 43-113)
ProcessText(available, text, history, keywords, has_summary_context, resp) ==
    IF ~available \/ text = <<>> \/ IsBlank(text)
    THEN [Degraded(text) EXCEPT !.keys = @ \cup {"success"}]
    ELSE LET out == CallGemini(text, history, keywords, has_summary_context, resp) IN
         IF out.raised
         THEN [Degraded(text) EXCEPT !.keys = @ \cup {"success", "error"},
                                     !.error = out.error]
         ELSE \* lines 97-100: whatever _call_gemini returned, with success True
              [out.result EXCEPT !.keys = @ \cup {"success"}, !.success = TRUE]

\* What the model adapter may do with one prompt: the objects it may answer,
\* by the keys they carry.
ModelObjects ==
    { [NoResult EXCEPT !.keys = {"refined_text", "translation", "is_keyword_match",
                                 "matched_keywords", "match_reason", "is_continuation",
                                 "continuation_reason"},
                       !.refined_text = <<"r">>, !.translation = <<"t">>,
                       !.is_keyword_match = TRUE, !.matched_keywords = << <<"x">> >>,
                       !.match_reason = "model"],
      [NoResult EXCEPT !.keys = {"refined_text", "translation", "is_keyword_match",
                                 "matched_keywords", "match_reason", "is_continuation",
                                 "continuation_reason"},
                       !.refined_text = <<"r">>, !.translation = <<"t">>,
                       !.match_reason = "model"],
      [NoResult EXCEPT !.keys = {"refined_text", "translation"},
                       !.refined_text = <<"r">>, !.translation = <<"t">>],
      NoResult }

ModelResponses ==
    {[kind |-> k, obj |-> NoResult] : k \in {"raise", "no_text", "malformed"}}
        \cup {[kind |-> "json", obj |-> o] : o \in ModelObjects}

\* The arguments of the process_text calls examined on their own.
Texts == UNION {[1..n -> Chars] : n \in 0..MaxTextLen}

KeywordChoices == {<<"k">>, <<"K">>, <<"x">>}

KeywordLists == {NoneList} \cup UNION {[1..n -> KeywordChoices] : n \in 0..MaxKeywords}

TextArgs ==
    [available : BOOLEAN, text : Texts, history : {NoneList, <<>>, << <<"x">> >>},
     keywords : KeywordLists,
     resp : ModelResponses]

\* at: "idle", "called", "executor" (suspended in run_in_executor, _call_gemini
\* not yet begun), "generate" (_call_gemini has read has_context) or "returned"
NoTp == [at |-> "idle",
         args |-> [available |-> FALSE, text |-> <<>>, history |-> NoneList,
                   keywords |-> NoneList, resp |-> [kind |-> "raise", obj |-> NoResult]],
         using_context |-> FALSE,
         result |-> NoResult]

\* ------------------------------------------------------------ engine adapter
\* AudioProcessor(language, model_type, callback, debug_mode).  forId is the id
\* whose register/update call constructed it (bookkeeping, not a field of the
\* object); pending is a recognised utterance not yet handed to the callback;
\* heard is the number of the last frame the object was given, 0 before the first.
NewEngine(forId, language, model_type) ==
    [id |-> forId, language |-> language, model_type |-> model_type,
     running |-> FALSE, pending |-> FALSE, heard |-> 0]

\* Construction fails with a validation error on an unsupported combination.
CanConstruct(language, model_type) ==
    language \in AVAILABLE_LANGUAGES /\ model_type \in AVAILABLE_MODELS

\* start() and stop() return success ("ok") or failure ("failed"), or they
\* raise ("raised"); being idempotent, they can fail only when they have
\* something to do.
StartOutcomes(es, e) == IF es[e].running THEN {"ok"} ELSE {"ok", "failed", "raised"}

StopOutcomes(es, e) == IF es[e].running THEN {"ok", "failed", "raised"} ELSE {"ok"}

\* start() with the given outcome: the engine runs after a success and is as
\* it was after a failure.
EngStart(es, e, outcome) == IF outcome = "ok" THEN [es EXCEPT ![e].running = TRUE] ELSE es

\* stop() with the given outcome: the engine has stopped after a success and
\* is as it was after a failure.
EngStop(es, e, outcome) == IF outcome = "ok" THEN [es EXCEPT ![e].running = FALSE] ELSE es

\* process_audio(bytes) that succeeds: the engine has frame n and may recognise
\* an utterance
EngFeed(es, e, n) ==
    IF Cardinality({x \in DOMAIN es : es[x].pending} \ {e}) < MaxPending
    THEN [es EXCEPT ![e].pending = TRUE, ![e].heard = n]
    ELSE [es EXCEPT ![e].heard = n]

\* ------------------------------------------------------------ heap
\* Objects are numbered in order of construction; a client dict carries the
\* number of the engine register_client made with it.
HasFree == made < MaxEngines

Alloc == made + 1

\* dicts reachable from the registry or from a suspended call's locals
LiveDicts(cl, fr) == ({cl[i] : i \in Ids} \cup {fr[p].client : p \in Procs}) \ {0}

\* engines reachable from a live dict or a suspended call, or kept alive by
\* their own worker (running, or holding a recognised utterance)
LiveEngines(cl, ds, es, fr, rt) ==
    ({ds[d].processor : d \in LiveDicts(cl, fr)}
       \cup {fr[p].processor : p \in Procs} \cup {fr[p].new_processor : p \in Procs}
       \cup {rt[p].handle : p \in Procs}
       \cup {e \in Refs : es[e].running \/ es[e].pending}) \ {0}

\* The keys of the registry after a step, in dict order: a key that is assigned
\* again keeps its place, a new key goes to the end, a deleted key is dropped.
KeysAfter(keys, cl) ==
    LET kept == SelectSeq(keys, LAMBDA id : cl[id] # 0)
        new == {id \in Ids : cl[id] # 0 /\ \A i \in DOMAIN kept : kept[i] # id}
    IN  IF new = {} THEN kept ELSE Append(kept, CHOOSE id \in new : TRUE)

\* The new heap: what the step wrote, less the objects nothing refers to any more.
CommitSent(cl, ds, es, fr, rt, out) ==
    /\ sent' = out
    /\ client_keys' = KeysAfter(client_keys, cl)
    /\ UNCHANGED <<tp, contextVars>>
    /\ clients' = cl
    /\ frame' = fr
    /\ ret' = rt
    /\ dicts' = [d \in Refs |-> IF d \in LiveDicts(cl, fr) THEN ds[d] ELSE NoDict]
    /\ engines' = [e \in Refs |-> IF e \in LiveEngines(cl, ds, es, fr, rt)
                                  THEN es[e] ELSE NoEngine]

\* a step that sends nothing and receives no audio
Commit(cl, ds, es, fr, rt) == CommitSent(cl, ds, es, fr, rt, {}) /\ UNCHANGED <<cb, audio>>

\* ------------------------------------------------------------ service: pure parts
\* get_client_config
GetClientConfig(cl, ds, es, id) ==
    IF cl[id] = 0 THEN NoCfg
    ELSE [error |-> FALSE,
          language |-> ds[cl[id]].language,
          model_type |-> ds[cl[id]].model_type,
          target_language |-> ds[cl[id]].target_language,
          processor_running |-> es[ds[cl[id]].processor].running,
          keywords |-> ds[cl[id]].keywords]

\* the engine object stored for id, 0 when id is not registered
Handle(cl, ds, id) == IF cl[id] = 0 THEN 0 ELSE ds[cl[id]].processor

\* What a returning service call leaves for its caller: the result, and what
\* get_client_config and the registry show at that moment.  A call that returns
\* without having suspended also leaves its arguments and what get_client_config
\* showed when it was entered.
Returned(op, id, result, cl, ds, es) ==
    [NoRet EXCEPT !.op = op, !.id = id, !.result = result,
                  !.cfg = GetClientConfig(cl, ds, es, id), !.handle = Handle(cl, ds, id)]

ReturnedAtOnce(op, id, args, result, cl, ds, es) ==
    [Returned(op, id, result, cl, ds, es) EXCEPT
        !.args = args, !.before = GetClientConfig(clients, dicts, engines, id)]

\* A call has returned and its caller has not reached its next await: no other
\* coroutine runs in between.
Urgent == \E p \in Procs : pc[p] \in {"reg_ret", "upd_ret", "unreg_ret", "feed_ret", "kw_ret"}

\* register_client: the dict stored for a new client
NewClientDict(e, language, model_type) ==
    [processor |-> e, language |-> language, model_type |-> model_type,
     target_language |-> "en", keywords |-> <<>>]

\* ------------------------------------------------------------ summary_context.py
\* the dict __init__ and clear_context store (lines 19-24, 99-104)
EmptyContext == [scene |-> "", topic |-> "", keyPoints |-> <<>>, summary |-> ""]

\* The context dicts posted to /summary/context.
Contexts ==
    { [scene |-> "s1", topic |-> "t1", keyPoints |-> <<"p1">>, summary |-> "m1"],
      [scene |-> "s2", topic |-> "t2", keyPoints |-> <<"p2">>, summary |-> "m2"] }

\* line 39: the keys set_context asks for
RequiredFields == {"scene", "topic", "keyPoints", "summary"}

\* The context_data dicts given to set_context: keys is the set of keys present,
\* the field of an absent key holds the filler of its type.
Payloads ==
    { [keys |-> ks, scene |-> IF "scene" \in ks THEN c.scene ELSE "",
       topic |-> IF "topic" \in ks THEN c.topic ELSE "",
       keyPoints |-> IF "keyPoints" \in ks THEN c.keyPoints ELSE <<>>,
       summary |-> IF "summary" \in ks THEN c.summary ELSE ""] :
         c \in Contexts,
         ks \in {RequiredFields, RequiredFields \ {"topic"}, RequiredFields \ {"summary"}, {}} }

NoPayload == [keys |-> {}, scene |-> "", topic |-> "", keyPoints |-> <<>>, summary |-> ""]

\* every key but topic is asked for
HasAllFieldsButTopic(context_data) == (RequiredFields \ {"topic"}) \subseteq context_data.keys

\* line 39: all(key in context_data for key in [...])
HasAllFields(context_data) == RequiredFields \subseteq context_data.keys

\* lines 44-49: the dict stored, context_data.get(key, default) for each key
StoredContext(context_data) ==
    [scene |-> IF "scene" \in context_data.keys THEN context_data.scene ELSE "",
     topic |-> IF "topic" \in context_data.keys THEN context_data.topic ELSE "",
     keyPoints |-> IF "keyPoints" \in context_data.keys THEN context_data.keyPoints ELSE <<>>,
     summary |-> IF "summary" \in context_data.keys THEN context_data.summary ELSE ""]

\* get_context_prompt returned None
NoPrompt == [none |-> TRUE, scene |-> "", topic |-> "", keyPoints |-> <<>>, summary |-> ""]

\* lines 82-94: the prompt text, by the parts the f-string is filled with; every
\* key point becomes a line "- point"
RenderPrompt(scene, topic, keyPoints, summary) ==
    [none |-> FALSE, scene |-> scene, topic |-> topic,
     keyPoints |-> [i \in 1..Len(keyPoints) |-> <<"- ", keyPoints[i]>>], summary |-> summary]

\* get_context_prompt called while no other thread touches the store
GetContextPrompt(hc, ctx) ==
    IF ~hc THEN NoPrompt ELSE RenderPrompt(ctx.scene, ctx.topic, ctx.keyPoints, ctx.summary)

\* at: "idle", or where the call in progress stands; arg: the context_data of the
\* last set_context call; ret: what that call returned ("none" before the first
\* return); last: the call that changed the store last ("none", "set", "clear")
NoWriter == [at |-> "idle", arg |-> NoPayload, ret |-> "none", last |-> "none"]

\* at: the next read of the reader; has: what has_summary_context() returned;
\* the fields are what the reads of self.context[...] returned
NoReader == [at |-> "idle", has |-> FALSE, scene |-> "", topic |-> "",
             keyPoints |-> <<>>, summary |-> ""]

\* SummaryContextService.__init__
InitContext ==
    /\ has_context = FALSE
    /\ context = EmptyContext
    /\ writer = NoWriter
    /\ reader = NoReader

\* set_context, lines 37-49: a payload that lacks a key is refused, False is
\* returned; otherwise self.context = {...}
SetContextStore(context_data) ==
    /\ writer.at = "idle"
    /\ IF ~HasAllFields(context_data)
       THEN /\ writer' = [writer EXCEPT !.arg = context_data, !.ret = "False"]
            /\ UNCHANGED context
       ELSE /\ context' = StoredContext(context_data)
            /\ writer' = [writer EXCEPT !.at = "set_flag", !.arg = context_data]
    /\ UNCHANGED <<has_context, reader>>

\* set_context, lines 52-57: self.has_context = True; return True
SetContextFlag ==
    /\ writer.at = "set_flag"
    /\ has_context' = TRUE
    /\ writer' = [writer EXCEPT !.at = "idle", !.ret = "True", !.last = "set"]
    /\ UNCHANGED <<context, reader>>

\* clear_context, line 98: self.has_context = False
ClearContextFlag ==
    /\ writer.at = "idle"
    /\ has_context' = FALSE
    /\ writer' = [writer EXCEPT !.at = "clear_store"]
    /\ UNCHANGED <<context, reader>>

\* the stored dict is left in place
ClearContextStoreKept ==
    /\ writer.at = "clear_store"
    /\ writer' = [writer EXCEPT !.at = "idle", !.last = "clear"]
    /\ UNCHANGED <<has_context, context, reader>>

\* clear_context, lines 99-104: self.context = {...}
ClearContextStore ==
    /\ writer.at = "clear_store"
    /\ context' = EmptyContext
    /\ writer' = [writer EXCEPT !.at = "idle", !.last = "clear"]
    /\ UNCHANGED <<has_context, reader>>

\* _call_gemini, line 137: summary_context_service.has_summary_context()
ReadHasContext ==
    /\ reader.at \in {"idle", "done", "none"}
    /\ reader' = [NoReader EXCEPT !.has = has_context,
                                  !.at = IF has_context THEN "recheck" ELSE "done"]
    /\ UNCHANGED <<has_context, context, writer>>

\* get_context_prompt, line 78: if not self.has_context: return None
RecheckHasContext ==
    /\ reader.at = "recheck"
    /\ reader' = [reader EXCEPT !.at = IF has_context THEN "keyPoints" ELSE "none"]
    /\ UNCHANGED <<has_context, context, writer>>

\* the reads of self.context in the order of lines 82, 87, 88, 91
ReadOrder == <<"keyPoints", "scene", "topic", "summary", "done">>

NextRead(field) == ReadOrder[1 + CHOOSE i \in 1..4 : ReadOrder[i] = field]

\* get_context_prompt, lines 82-91: self.context[field], one attribute read each
ReadField(field) ==
    /\ reader.at = field
    /\ reader' = [reader EXCEPT !.at = NextRead(field), ![field] = context[field]]
    /\ UNCHANGED <<has_context, context, writer>>

\* the services and the module globals after import
InitSessions ==
    /\ clients = [i \in Ids |-> 0]
    /\ dicts = [r \in Refs |-> NoDict]
    /\ engines = [r \in Refs |-> NoEngine]
    /\ made = 0
    /\ active_connections = <<>>
    /\ audio_stats = [i \in Ids |-> NoStats]
    /\ sent = {}
    /\ pc = [p \in Procs |-> IF p \in Conns THEN "closed" ELSE "idle"]
    /\ wid = [w \in Conns |-> NONE]
    /\ client_state = [w \in Conns |-> "CONNECTING"]
    /\ client_keys = <<>>
    /\ frame = [p \in Procs |-> NoFrame]
    /\ ret = [p \in Procs |-> NoRet]
    /\ cb = NoCb

\* the client of the first connection sends the recording, the other clients
\* send no audio
Speaker(recording) == [w \in Conns |-> IF w = "w1" THEN recording ELSE <<>>]

Init ==
    /\ InitSessions
    /\ audio = Speaker(OneFrame)
    /\ tp = NoTp
    /\ InitContext

\* ------------------------------------------------------------ register_client
\* what register_client returns: the processor (truthy) after start(), None from
\* the except clause (lines 50-54)
RegResult(at) == at = "reg_wait"

\* One call of register_client up to its first suspension: construct the
\* engine, store the dict, start the engine.  The value start() returns is
\* not looked at (line 47).
Register(p, id, language, model_type) ==
    \E c_ok \in BOOLEAN :
        IF ~(c_ok /\ CanConstruct(language, model_type))
        THEN \* the constructor raised: except clause, return None
             /\ pc' = [pc EXCEPT ![p] = "reg_ret"]
             /\ UNCHANGED made
             /\ Commit(clients, dicts, engines,
                       [frame EXCEPT ![p] = [NoFrame EXCEPT !.op = "register", !.id = id]],
                       [ret EXCEPT ![p] =
                          ReturnedAtOnce("register", id, NoArgs, RegResult("raised"),
                                         clients, dicts, engines)])
        ELSE /\ HasFree
             /\ made' = made + 1
             /\ LET e == Alloc
                    d == Alloc
                    es1 == [engines EXCEPT ![e] = NewEngine(id, language, model_type)]
                    ds1 == [dicts EXCEPT ![d] = NewClientDict(e, language, model_type)]
                    cl1 == [clients EXCEPT ![id] = d]
                IN  \E started \in StartOutcomes(es1, e) :
                    LET fr1 == [frame EXCEPT ![p] =
                                  [NoFrame EXCEPT !.op = "register", !.id = id,
                                                  !.new_processor = e,
                                                  !.trace = <<<<"start", e, started>>>>]]
                    IN  IF started # "raised"
                        THEN /\ pc' = [pc EXCEPT ![p] = "reg_wait"]
                             /\ Commit(cl1, ds1, EngStart(es1, e, started), fr1, ret)
                        ELSE \* start raised: except clause, return None
                             /\ pc' = [pc EXCEPT ![p] = "reg_ret"]
                             /\ Commit(cl1, ds1, es1, fr1,
                                       [ret EXCEPT ![p] =
                                          ReturnedAtOnce("register", id, NoArgs,
                                                         RegResult("raised"), cl1, ds1, es1)])

\* register_client resumes after start() and returns the processor.
RegisterReturn(p) ==
    /\ ~Urgent
    /\ pc[p] = "reg_wait"
    /\ pc' = [pc EXCEPT ![p] = "reg_ret"]
    /\ Commit(clients, dicts, engines, frame,
              [ret EXCEPT ![p] =
                 Returned("register", frame[p].id, RegResult(pc[p]), clients, dicts, engines)])
    /\ UNCHANGED <<made, active_connections, audio_stats, wid, client_state>>

\* ------------------------------------------------------------ websocket handler
\* lines 232-235: the message sent after accept
Connected(id) == [event |-> "connected", client_id |-> id]

\* lines 251-254: the message sent when register_client returned None
RegisterFailed == [event |-> "error", message |-> "register failed"]

\* lines 262-265: the message of the except clause around the registration
ServerError == [event |-> "error", message |-> "server error"]

\* lines 365-368: the message of the receive loop's except clause, whatever
\* the exception
ErrorMessage == [event |-> "error", message |-> "KeyError"]

\* what unregister_client returns: True for an absent id (lines 110-112) and after
\* the entry is deleted (line 105), False from the except clause (lines 106-109)
UnregResult(at) == at \in {"absent", "deleted"}

\* unregister_client up to its await of stop() (lines 92-100); todo is what the
\* caller has still to unregister after this id.  The value stop() returns is
\* not looked at.
Unregister(p, id, todo) ==
    LET fr == [NoFrame EXCEPT !.op = "unregister", !.id = id, !.todo = todo]
    IN
    IF clients[id] = 0
    THEN /\ pc' = [pc EXCEPT ![p] = "unreg_ret"]
         /\ CommitSent(clients, dicts, engines, [frame EXCEPT ![p] = fr],
                       [ret EXCEPT ![p] =
                          ReturnedAtOnce("unregister", id, NoArgs, UnregResult("absent"),
                                         clients, dicts, engines)], {})
    ELSE LET e == dicts[clients[id]].processor IN
         \E stopped \in StopOutcomes(engines, e) :
         LET fr1 == [fr EXCEPT !.client = clients[id], !.processor = e,
                               !.trace = <<<<"stop", e, stopped>>>>]
         IN
         IF stopped # "raised"
         THEN /\ pc' = [pc EXCEPT ![p] = "unreg_stopped"]
              /\ CommitSent(clients, dicts, EngStop(engines, e, stopped),
                            [frame EXCEPT ![p] = fr1], [ret EXCEPT ![p] = NoRet], {})
         ELSE \* stop raised: except clause, return False
              /\ pc' = [pc EXCEPT ![p] = "unreg_ret"]
              /\ CommitSent(clients, dicts, engines, [frame EXCEPT ![p] = fr1],
                            [ret EXCEPT ![p] =
                               ReturnedAtOnce("unregister", id, NoArgs, UnregResult("raised"),
                                              clients, dicts, engines)], {})

\* The finally clause of the handler (lines 378-389): the connection entry and
\* the statistics of the id are deleted and unregister_client is called, which
\* runs to its await of stop().  No await lies between the place the handler
\* leaves its try block and line 389.  ac is active_connections as the step
\* has left it so far.
Finally(w, ac) ==
    /\ active_connections' = DelConn(ac, wid[w])
    /\ audio_stats' = [audio_stats EXCEPT ![wid[w]] = NoStats]
    /\ Unregister(w, wid[w], <<>>)

\* lines 361-371: the except clause of the receive loop sends the error to the
\* client and the loop goes on; when that send raises too the loop ends and
\* the finally clause follows.  fr and rt are the locals the step leaves.
Report(w, ok, fr, rt) ==
    IF ok
    THEN /\ pc' = [pc EXCEPT ![w] = "loop"]
         /\ CommitSent(clients, dicts, engines, fr, rt, {<<w, wid[w], ErrorMessage>>})
         /\ UNCHANGED <<active_connections, audio_stats>>
    ELSE Finally(w, active_connections)

\* websocket_transcribe up to await websocket.accept() (lines 203-225): the
\* statistics entry of the id is stored.
WsConnect(w, id) ==
    /\ ~Urgent
    /\ pc[w] = "closed"
    /\ wid' = [wid EXCEPT ![w] = id]
    /\ client_state' = [client_state EXCEPT ![w] = "CONNECTING"]
    /\ audio_stats' = [audio_stats EXCEPT ![id] = NewStats]
    /\ pc' = [pc EXCEPT ![w] = "accept"]
    /\ Commit(clients, dicts, engines, frame, ret)
    /\ UNCHANGED <<made, active_connections>>

\* accept() has returned (lines 226-235): the connection is stored and the
\* connected message is sent.  When accept() or send_json raises, the outer
\* except clause (lines 373-377) leads into the finally clause.
WsAccept(w) ==
    /\ ~Urgent
    /\ pc[w] = "accept"
    /\ \E accepted \in BOOLEAN, ok \in BOOLEAN :
          IF ~accepted
          THEN /\ Finally(w, active_connections)
               /\ UNCHANGED client_state
          ELSE /\ client_state' = [client_state EXCEPT ![w] = "CONNECTED"]
               /\ IF ok
                  THEN /\ active_connections' = SetConn(active_connections, wid[w], w)
                       /\ pc' = [pc EXCEPT ![w] = "connected"]
                       /\ CommitSent(clients, dicts, engines, frame, ret,
                                     {<<w, wid[w], Connected(wid[w])>>})
                       /\ UNCHANGED audio_stats
                  ELSE Finally(w, SetConn(active_connections, wid[w], w))
    /\ UNCHANGED <<made, wid, cb, audio>>

\* service.register_client(client_id, callback, debug_mode=True): default language and model
WsRegister(w) ==
    /\ ~Urgent
    /\ pc[w] = "connected"
    /\ Register(w, wid[w], "zh", "tiny")
    /\ UNCHANGED <<active_connections, audio_stats, wid, client_state>>

\* after register_client (lines 249-266): enter the receive loop, or send the
\* error and return.  When that send raises, the except clause of line 259,
\* which encloses it, sends the server error and returns.  A send that
\* succeeds suspends the handler before its return runs the finally clause;
\* when the second send raises too, the outer except clause and the finally
\* clause follow at once.
WsAfterRegister(w) ==
    /\ pc[w] = "reg_ret"
    /\ IF ret[w].result
       THEN /\ pc' = [pc EXCEPT ![w] = "loop"]
            /\ CommitSent(clients, dicts, engines,
                          [frame EXCEPT ![w] = NoFrame], [ret EXCEPT ![w] = NoRet], {})
            /\ UNCHANGED <<active_connections, audio_stats>>
       ELSE \E ok \in BOOLEAN, reported \in BOOLEAN :
               IF ok \/ reported
               THEN /\ pc' = [pc EXCEPT ![w] = "cleanup"]
                    /\ CommitSent(clients, dicts, engines,
                                  [frame EXCEPT ![w] = NoFrame], [ret EXCEPT ![w] = NoRet],
                                  {<<w, wid[w], IF ok THEN RegisterFailed ELSE ServerError>>})
                    /\ UNCHANGED <<active_connections, audio_stats>>
               ELSE Finally(w, active_connections)
    /\ UNCHANGED <<made, wid, client_state, cb, audio>>

\* WebSocketDisconnect in the receive loop (lines 358-360): break, and the
\* finally clause
WsDisconnect(w) ==
    /\ ~Urgent
    /\ pc[w] = "loop"
    /\ client_state[w] = "CONNECTED"
    /\ client_state' = [client_state EXCEPT ![w] = "DISCONNECTED"]
    /\ Finally(w, active_connections)
    /\ UNCHANGED <<made, wid, cb, audio>>

\* The transport has closed and receive() (line 272) hands the handler its
\* disconnect message instead of raising: the socket is DISCONNECTED from then
\* on and the message carries neither "bytes" nor "text" (lines 275, 314), so
\* the loop goes round; every later receive() raises at once into the except
\* clause of line 361, which sends the error message (Report).  While that send
\* succeeds the handler stays in its loop, its closed socket still stored in
\* active_connections.
WsReceiveClosed(w) ==
    /\ ~Urgent
    /\ pc[w] = "loop"
    /\ client_state' = [client_state EXCEPT ![w] = "DISCONNECTED"]
    /\ \E reported \in BOOLEAN : Report(w, reported, frame, ret)
    /\ UNCHANGED <<made, wid, cb, audio>>

\* the handler returns after the error message of a failed registration: the
\* finally clause
WsCleanup(w) ==
    /\ ~Urgent
    /\ pc[w] = "cleanup"
    /\ Finally(w, active_connections)
    /\ UNCHANGED <<made, wid, client_state, cb, audio>>

\* unregister_client resumes after stop(): del self.clients[client_id], which
\* raises KeyError when the entry is gone by then
UnregisterDelete(p) ==
    /\ ~Urgent
    /\ pc[p] = "unreg_stopped"
    /\ pc' = [pc EXCEPT ![p] = "unreg_ret"]
    /\ LET id == frame[p].id
           cl1 == [clients EXCEPT ![id] = 0]
       IN
       Commit(cl1, dicts, engines, frame,
              [ret EXCEPT ![p] =
                 Returned("unregister", id,
                          UnregResult(IF clients[id] = 0 THEN "raised" ELSE "deleted"),
                          cl1, dicts, engines)])
    /\ UNCHANGED <<made, active_connections, audio_stats, wid, client_state>>

\* after unregister_client (line 390): the handler ends
WsClosed(w) ==
    /\ pc[w] = "unreg_ret"
    /\ pc' = [pc EXCEPT ![w] = "closed"]
    /\ wid' = [wid EXCEPT ![w] = NONE]
    /\ Commit(clients, dicts, engines,
              [frame EXCEPT ![w] = NoFrame], [ret EXCEPT ![w] = NoRet])
    /\ UNCHANGED <<made, active_connections, audio_stats, client_state>>

\* TranscriptionService.cleanup (lines 285-288): the keys of the registry are
\* copied and unregister_client is awaited for the first of them; on an empty
\* registry the call does nothing.
ServiceCleanup ==
    /\ ~Urgent
    /\ pc["rest"] = "idle"
    /\ client_keys # <<>>
    /\ Unregister("rest", Head(client_keys), Tail(client_keys))
    /\ UNCHANGED <<made, active_connections, audio_stats, wid, client_state, cb, audio>>

\* cleanup() after an unregister_client: the next id of its copy, or return
CleanupNext ==
    /\ pc["rest"] = "unreg_ret"
    /\ LET todo == frame["rest"].todo IN
       IF todo = <<>>
       THEN /\ pc' = [pc EXCEPT !["rest"] = "idle"]
            /\ CommitSent(clients, dicts, engines,
                          [frame EXCEPT !["rest"] = NoFrame], [ret EXCEPT !["rest"] = NoRet], {})
       ELSE Unregister("rest", Head(todo), Tail(todo))
    /\ UNCHANGED <<made, active_connections, audio_stats, wid, client_state, cb, audio>>

\* ------------------------------------------------------------ update_client_config
\* lines 139-149: the fields the request carries are written into the dict
ApplyConfig(d, language, model_type, target_language) ==
    [d EXCEPT !.language = IF language # NONE THEN language ELSE @,
              !.model_type = IF model_type # NONE THEN model_type ELSE @,
              !.target_language = IF target_language # NONE THEN target_language ELSE @]

\* Validate without the model check of lines 156-158
ValidateLanguageOnly(d) == d.language \in AVAILABLE_LANGUAGES

\* lines 152-158: the dict's language and model are in the supported sets
Validate(d) ==
    d.language \in AVAILABLE_LANGUAGES /\ d.model_type \in AVAILABLE_MODELS

\* What update_client_config returns, by the place it returns from: True after
\* the new processor started (line 209), False everywhere else (lines 124, 154,
\* 158, 220, 224).
UpdResult(at) == at = "upd_started"

\* the request names a language or a model outside the supported sets
InvalidArgs(language, model_type) ==
    \/ language \notin AVAILABLE_LANGUAGES \cup {NONE}
    \/ model_type \notin AVAILABLE_MODELS \cup {NONE}

\* update_client_config from its entry to the await of processor.stop(),
\* whose value is not looked at (line 165)
UpdEnter(p, id, language, model_type, target_language) ==
    LET fr0 == [NoFrame EXCEPT !.op = "update", !.id = id,
                               !.invalid = InvalidArgs(language, model_type),
                               !.msg = frame[p].msg]
        args == [language |-> language, model_type |-> model_type,
                 target_language |-> target_language]
    IN
    IF clients[id] = 0
    THEN \* not registered: return False
         /\ pc' = [pc EXCEPT ![p] = "upd_ret"]
         /\ Commit(clients, dicts, engines, [frame EXCEPT ![p] = fr0],
                   [ret EXCEPT ![p] =
                      ReturnedAtOnce("update", id, args, UpdResult("unregistered"),
                                     clients, dicts, engines)])
    ELSE LET d == clients[id]
             old == dicts[d].processor
             ds1 == [dicts EXCEPT ![d] = ApplyConfig(@, language, model_type, target_language)]
             fr1 == [fr0 EXCEPT !.client = d, !.processor = old]
         IN
         IF ~Validate(ds1[d])
         THEN \* unsupported language or model: return False
              /\ pc' = [pc EXCEPT ![p] = "upd_ret"]
              /\ Commit(clients, ds1, engines, [frame EXCEPT ![p] = fr1],
                        [ret EXCEPT ![p] =
                           ReturnedAtOnce("update", id, args, UpdResult("rejected"),
                                          clients, ds1, engines)])
         ELSE \E stopped \in StopOutcomes(engines, old) :
              LET fr2 == [fr1 EXCEPT !.trace = <<<<"stop", old, stopped>>>>] IN
              IF stopped # "raised"
              THEN /\ pc' = [pc EXCEPT ![p] = "upd_stopped"]
                   /\ Commit(clients, ds1, EngStop(engines, old, stopped),
                             [frame EXCEPT ![p] = fr2], ret)
              ELSE \* stop raised: outer except clause, return False
                   /\ pc' = [pc EXCEPT ![p] = "upd_ret"]
                   /\ Commit(clients, ds1, engines, [frame EXCEPT ![p] = fr2],
                             [ret EXCEPT ![p] =
                                ReturnedAtOnce("update", id, args, UpdResult("stop_raised"),
                                               clients, ds1, engines)])

\* lines 210-220: the except clause restarts the old processor; a restart that
\* returns suspends, one that raises is logged and False is returned
Rollback(p, ds, es, fr) ==
    LET old == fr.processor IN
    \E restarted \in StartOutcomes(es, old) :
       LET fr1 == [fr EXCEPT !.trace = Append(@, <<"start", old, restarted>>)] IN
       IF restarted # "raised"
       THEN /\ pc' = [pc EXCEPT ![p] = "upd_rolled"]
            /\ Commit(clients, ds, EngStart(es, old, restarted), [frame EXCEPT ![p] = fr1], ret)
       ELSE /\ pc' = [pc EXCEPT ![p] = "upd_ret"]
            /\ Commit(clients, ds, es, [frame EXCEPT ![p] = fr1],
                      [ret EXCEPT ![p] =
                         Returned("update", fr.id, UpdResult("rollback_raised"),
                                  clients, ds, es)])

\* update_client_config resumed after stop(): construct the new processor,
\* store it in the dict, start it (lines 167-206); the value start() returns
\* is not looked at
UpdSwap(p) ==
    /\ ~Urgent
    /\ pc[p] = "upd_stopped"
    /\ LET fr == frame[p]
           d == fr.client
       IN
       \E c_ok \in BOOLEAN :
          IF ~(c_ok /\ CanConstruct(dicts[d].language, dicts[d].model_type))
          THEN \* the constructor raised
               /\ UNCHANGED made
               /\ Rollback(p, dicts, engines, fr)
          ELSE /\ HasFree
               /\ made' = made + 1
               /\ LET e == Alloc
                      es1 == [engines EXCEPT
                                ![e] = NewEngine(fr.id, dicts[d].language, dicts[d].model_type)]
                      ds1 == [dicts EXCEPT ![d].processor = e]
                  IN
                  \E started \in StartOutcomes(es1, e) :
                     LET fr1 == [fr EXCEPT !.new_processor = e,
                                           !.trace = Append(@, <<"start", e, started>>)]
                     IN
                     IF started # "raised"
                     THEN /\ pc' = [pc EXCEPT ![p] = "upd_started"]
                          /\ Commit(clients, ds1, EngStart(es1, e, started),
                                    [frame EXCEPT ![p] = fr1], ret)
                     ELSE \* start raised
                          Rollback(p, ds1, es1, fr1)
    /\ UNCHANGED <<active_connections, audio_stats, wid, client_state>>

\* update_client_config resumed after the last start(): return
UpdReturn(p) ==
    /\ ~Urgent
    /\ pc[p] \in {"upd_started", "upd_rolled"}
    /\ pc' = [pc EXCEPT ![p] = "upd_ret"]
    /\ Commit(clients, dicts, engines, frame,
              [ret EXCEPT ![p] =
                 Returned("update", frame[p].id, UpdResult(pc[p]), clients, dicts, engines)])
    /\ UNCHANGED <<made, active_connections, audio_stats, wid, client_state>>

\* lines 328-331
ConfigReceived == [event |-> "config_received", status |-> "processing"]

\* the status is success whatever update_client_config returned
ConfigStatusSuccess(success) == "success"

\* lines 342-354: the status of config_updated
ConfigStatus(success) == IF success THEN "success" ELSE "error"

ConfigUpdated(success) == [event |-> "config_updated", status |-> ConfigStatus(success)]

\* a config message in the receive loop (lines 320-331): the config is read and
\* config_received is sent; when that send raises, the except clause of the
\* loop takes over
WsConfigReceived(w, msg) ==
    /\ ~Urgent
    /\ pc[w] = "loop"
    /\ client_state[w] = "CONNECTED"
    /\ \E ok \in BOOLEAN, reported \in BOOLEAN :
          IF ok
          THEN /\ pc' = [pc EXCEPT ![w] = "cfg_ack"]
               /\ CommitSent(clients, dicts, engines,
                             [frame EXCEPT ![w] = [NoFrame EXCEPT !.op = "config", !.id = wid[w],
                                                                  !.msg = msg]],
                             ret, {<<w, wid[w], ConfigReceived>>})
               /\ UNCHANGED <<active_connections, audio_stats>>
          ELSE Report(w, reported, frame, ret)
    /\ UNCHANGED <<made, wid, client_state, cb, audio>>

\* send_json has returned: update_client_config is called with the defaults
\* filled in (lines 322-326, 335-340)
WsConfig(w) ==
    /\ ~Urgent
    /\ pc[w] = "cfg_ack"
    /\ UpdEnter(w, wid[w], Get(frame[w].msg, "language", "zh"),
                Or(frame[w].msg.model_type, Get(frame[w].msg, "model", "tiny")),
                Get(frame[w].msg, "target_language", "en"))
    /\ UNCHANGED <<made, active_connections, audio_stats, wid, client_state>>

\* config_updated is sent (lines 342-354); back to the receive loop.  When the
\* send raises, the except clause of the loop takes over.
WsConfigReply(w) ==
    /\ pc[w] = "upd_ret"
    /\ \E ok \in BOOLEAN, reported \in BOOLEAN :
          IF ok
          THEN /\ pc' = [pc EXCEPT ![w] = "loop"]
               /\ CommitSent(clients, dicts, engines,
                             [frame EXCEPT ![w] = NoFrame], [ret EXCEPT ![w] = NoRet],
                             {<<w, wid[w], ConfigUpdated(ret[w].result)>>})
               /\ UNCHANGED <<active_connections, audio_stats>>
          ELSE Report(w, reported, [frame EXCEPT ![w] = NoFrame], [ret EXCEPT ![w] = NoRet])
    /\ UNCHANGED <<made, wid, client_state, cb, audio>>

\* POST /ws/client/{client_id}/config for a registered client (lines 117-157):
\* language is config.get("language"), model_type is config.get("model_type")
\* or config.get("model") (line 129)
RestUpdateConfig(id, body) ==
    /\ ~Urgent
    /\ pc["rest"] = "idle"
    /\ clients[id] # 0
    /\ UpdEnter("rest", id, body.language, Or(body.model_type, body.model),
                Get(body, "target_language", "en"))
    /\ UNCHANGED <<made, active_connections, audio_stats, wid, client_state>>

\* the endpoint builds its response (lines 159-184)
RestReply ==
    /\ pc["rest"] = "upd_ret"
    /\ pc' = [pc EXCEPT !["rest"] = "idle"]
    /\ Commit(clients, dicts, engines,
              [frame EXCEPT !["rest"] = NoFrame], [ret EXCEPT !["rest"] = NoRet])
    /\ UNCHANGED <<made, active_connections, audio_stats, wid, client_state>>

\* ------------------------------------------------------------ process_audio
\* process_audio returns True for every call
FeedResultAlways(at) == TRUE

\* what process_audio returns: False for an id that is not registered (lines
\* 58-60) and from the except clause (lines 87-90), True after the frame was
\* given to the processor (line 86)
FeedResult(at) == at = "fed"

\* line 76: await processor.process_audio(audio_data) on the processor the call
\* read from the registry at its entry.  The processor takes the frame and the
\* call suspends, or the processor raises and the except clause returns False.
\* fr holds the locals of the call, suspended says whether the call has
\* suspended before.
Forward(p, fr, es, suspended) ==
    LET e == fr.processor IN
    \E fed \in {"ok", "raised"} :
       LET fr1 == [fr EXCEPT !.trace = Append(@, <<"feed", e, fed>>)] IN
       IF fed = "ok"
       THEN /\ pc' = [pc EXCEPT ![p] = "feed_fed"]
            /\ CommitSent(clients, dicts, EngFeed(es, e, fr.n), [frame EXCEPT ![p] = fr1],
                          ret, {})
       ELSE /\ pc' = [pc EXCEPT ![p] = "feed_ret"]
            /\ CommitSent(clients, dicts, es, [frame EXCEPT ![p] = fr1],
                          [ret EXCEPT ![p] =
                             IF suspended
                             THEN Returned("feed", fr.id, FeedResult("raised"), clients, dicts, es)
                             ELSE ReturnedAtOnce("feed", fr.id, NoArgs, FeedResult("raised"),
                                                 clients, dicts, es)], {})

\* A binary frame in the receive loop (lines 275-311): the statistics of the id
\* are updated, then process_audio(client_id, audio_data) is called and runs to
\* its first suspension (transcription.py lines 56-76): start() of a processor
\* that is not running, or the processor's process_audio.  Without a statistics
\* entry line 283 raises KeyError into the except clause of the loop.
WsFeed(w) ==
    /\ ~Urgent
    /\ pc[w] = "loop"
    /\ client_state[w] = "CONNECTED"
    /\ audio[w] # <<>>
    /\ audio' = [audio EXCEPT ![w] = Tail(@)]
    /\ LET id == wid[w]
           data == Receive(audio[w])
           fr == [NoFrame EXCEPT !.op = "feed", !.id = id, !.n = data.n]
       IN
       IF ~audio_stats[id].present
       THEN \E reported \in BOOLEAN : Report(w, reported, frame, ret)
       ELSE /\ audio_stats' = [audio_stats EXCEPT
                                 ![id] = UpdateStats(@, data.size, @.last_chunk_time + 1)]
            /\ UNCHANGED active_connections
            /\ IF clients[id] = 0
               THEN /\ pc' = [pc EXCEPT ![w] = "feed_ret"]
                    /\ CommitSent(clients, dicts, engines, [frame EXCEPT ![w] = fr],
                                  [ret EXCEPT ![w] =
                                     ReturnedAtOnce("feed", id, NoArgs, FeedResult("unknown"),
                                                    clients, dicts, engines)], {})
               ELSE LET e == dicts[clients[id]].processor
                        fr1 == [fr EXCEPT !.client = clients[id], !.processor = e]
                    IN
                    IF ~engines[e].running   \* line 70: if not processor.running
                    THEN \E started \in StartOutcomes(engines, e) :
                            LET fr2 == [fr1 EXCEPT !.trace = <<<<"start", e, started>>>>] IN
                            IF started # "raised"
                            THEN \* the value start() returned is not looked at
                                 /\ pc' = [pc EXCEPT ![w] = "feed_started"]
                                 /\ CommitSent(clients, dicts, EngStart(engines, e, started),
                                               [frame EXCEPT ![w] = fr2], ret, {})
                            ELSE \* start raised: except clause, return False
                                 /\ pc' = [pc EXCEPT ![w] = "feed_ret"]
                                 /\ CommitSent(clients, dicts, engines, [frame EXCEPT ![w] = fr2],
                                               [ret EXCEPT ![w] =
                                                  ReturnedAtOnce("feed", id, NoArgs,
                                                                 FeedResult("raised"),
                                                                 clients, dicts, engines)], {})
                    ELSE Forward(w, fr1, engines, FALSE)
    /\ UNCHANGED <<made, wid, client_state, cb>>

\* process_audio resumes after start() and gives the frame to the processor
FeedForward(w) ==
    /\ ~Urgent
    /\ pc[w] = "feed_started"
    /\ Forward(w, frame[w], engines, TRUE)
    /\ UNCHANGED <<made, active_connections, audio_stats, wid, client_state, cb, audio>>

\* process_audio resumes after the processor took the frame and returns True
FeedReturn(w) ==
    /\ ~Urgent
    /\ pc[w] = "feed_fed"
    /\ pc' = [pc EXCEPT ![w] = "feed_ret"]
    /\ Commit(clients, dicts, engines, frame,
              [ret EXCEPT ![w] =
                 Returned("feed", frame[w].id, FeedResult("fed"), clients, dicts, engines)])
    /\ UNCHANGED <<made, active_connections, audio_stats, wid, client_state>>

\* after process_audio (lines 305-308): back to the receive loop
WsFeedDone(w) ==
    /\ pc[w] = "feed_ret"
    /\ pc' = [pc EXCEPT ![w] = "loop"]
    /\ Commit(clients, dicts, engines,
              [frame EXCEPT ![w] = NoFrame], [ret EXCEPT ![w] = NoRet])
    /\ UNCHANGED <<made, active_connections, audio_stats, wid, client_state>>

\* ------------------------------------------------------------ update_client_keywords
\* the keyword lists given to update_client_keywords
KeywordArgs == KeywordLists \ {NoneList}

\* the language is written as well
SetKeywordsAndLanguage(d, keywords) == [d EXCEPT !.keywords = keywords, !.language = "en"]

\* line 263: self.clients[client_id]['keywords'] = keywords
SetKeywords(d, keywords) == [d EXCEPT !.keywords = keywords]

\* One call of update_client_keywords (lines 245-268); it has no await and runs
\* to its return: False for an id that is not registered (lines 257-259), True
\* after the assignment (line 264).
UpdateClientKeywords(id, keywords) ==
    /\ ~Urgent
    /\ pc["rest"] = "idle"
    /\ pc' = [pc EXCEPT !["rest"] = "kw_ret"]
    /\ LET fr == [NoFrame EXCEPT !.op = "keywords", !.id = id, !.client = clients[id]]
           ds1 == IF clients[id] = 0 THEN dicts
                  ELSE [dicts EXCEPT ![clients[id]] = SetKeywords(@, keywords)]
       IN
       Commit(clients, ds1, engines, [frame EXCEPT !["rest"] = fr],
              [ret EXCEPT !["rest"] =
                 ReturnedAtOnce("keywords", id, NoArgs,
                                clients[id] # 0,
                                clients, ds1, engines)])
    /\ UNCHANGED <<made, active_connections, audio_stats, wid, client_state>>

\* the caller of update_client_keywords goes on
KeywordsReturn ==
    /\ pc["rest"] = "kw_ret"
    /\ pc' = [pc EXCEPT !["rest"] = "idle"]
    /\ Commit(clients, dicts, engines,
              [frame EXCEPT !["rest"] = NoFrame], [ret EXCEPT !["rest"] = NoRet])
    /\ UNCHANGED <<made, active_connections, audio_stats, wid, client_state>>

\* ------------------------------------------------------------ send_transcription_result
\* WebSocket.client_state of a connection
ClientState(w) == client_state[w]

\* the text an engine hands to the callback when it is not empty
CallbackText == <<"k">>

\* lines 456-464: the transcription message
TranscriptionMessage(text, result, source_language, target_language) ==
    [event |-> "transcription", kind |-> "enriched", text |-> text,
     refined_text |-> IF "refined_text" \in result.keys THEN result.refined_text ELSE text,
     translation |-> IF "translation" \in result.keys THEN result.translation ELSE <<>>,
     source_language |-> source_language, target_language |-> target_language]

\* lines 489-493: the fallback message, text and timestamp only
RawMessage(text) ==
    [event |-> "transcription", kind |-> "raw", text |-> text,
     refined_text |-> <<>>, translation |-> <<>>,
     source_language |-> NONE, target_language |-> NONE]

\* The loop over the snapshot of active_connections.keys() (lines 428-446) at
\* the head of an iteration: the languages of the client are read from the
\* registry ("zh"/"en" when the id is not registered) and process_text is
\* awaited; NoCb when the snapshot is exhausted.  TextProcessor.available is
\* True here, so the await suspends in run_in_executor.
CbIter(origin, todo) ==
    IF todo = <<>> THEN NoCb
    ELSE LET id == Head(todo) IN
         [at |-> "enrich", origin |-> origin, cur |-> id, todo |-> Tail(todo),
          source_language |-> IF clients[id] # 0 THEN dicts[clients[id]].language ELSE "zh",
          target_language |-> IF clients[id] # 0 THEN dicts[clients[id]].target_language
                                                 ELSE "en"]

\* what the model adapter may do during a callback: fail, or answer in full
CallbackResponses == {r \in ModelResponses : r.kind = "raise" \/ r.obj.match_reason = "model"}

SendOutcomes == {"sent", "fallback", "lost"}

\* The engine hands a recognised text to its callback (lines 392-446).
CbStart(e, empty) ==
    /\ ~Urgent
    /\ cb.at = "idle"
    /\ engines[e].pending
    /\ cb' = IF empty THEN NoCb
             ELSE \* line 412: list(active_connections.keys()), in insertion order
                  CbIter(engines[e].id,
                         [i \in 1..Len(active_connections) |-> active_connections[i][1]])
    /\ CommitSent(clients, dicts, [engines EXCEPT ![e].pending = FALSE], frame, ret, {})
    /\ UNCHANGED <<made, pc, active_connections, audio_stats, wid, client_state, audio>>

\* the state of the socket is not looked at
DeliverableAlways(state) == TRUE

\* lines 472-480: the message is sent on a socket whose state is CONNECTED
Deliverable(state) == state = "CONNECTED"

\* the message and the fallback are both sent
SendAttemptsBoth(outcome) == << <<"enriched", TRUE>>, <<"raw", TRUE>> >>

\* The sends of one delivery, <<message, succeeded>>: send_json of the message
\* (line 477), and when it raised send_json of the fallback in the except
\* clause (lines 488-493), whose failure is swallowed (lines 495-496).
SendAttempts(outcome) ==
    IF outcome = "sent" THEN << <<"enriched", TRUE>> >>
    ELSE IF outcome = "fallback" THEN << <<"enriched", FALSE>>, <<"raw", TRUE>> >>
    ELSE << <<"enriched", FALSE>>, <<"raw", FALSE>> >>

\* process_text has returned (lines 448-496): look the connection up and send.
\* A missing key raises KeyError into the except clause, whose own lookup raises
\* again and is swallowed.  outcome: send_json of the message succeeds ("sent"),
\* or it raises and send_json of the fallback succeeds ("fallback") or raises
\* too ("lost").
CbResume(resp, outcome) ==
    /\ ~Urgent
    /\ cb.at = "enrich"
    /\ LET result == ProcessText(TRUE, CallbackText, NoneList, NoneList, has_context, resp)
           w == Conn(active_connections, cb.cur)
           msg == TranscriptionMessage(CallbackText, result,
                                       cb.source_language, cb.target_language)
           tries == SendAttempts(outcome)
           out == {<<w, cb.origin, IF tries[i][1] = "enriched" THEN msg
                                                               ELSE RawMessage(CallbackText)>> :
                      i \in {j \in DOMAIN tries : tries[j][2]}}
       IN
       IF w = NoConn \/ ~Deliverable(ClientState(w))
       THEN /\ cb' = CbIter(cb.origin, cb.todo)
            /\ CommitSent(clients, dicts, engines, frame, ret, {})
       ELSE /\ cb' = IF out # {} THEN [cb EXCEPT !.at = "sent"] ELSE CbIter(cb.origin, cb.todo)
            /\ CommitSent(clients, dicts, engines, frame, ret, out)
    /\ UNCHANGED <<made, pc, active_connections, audio_stats, wid, client_state, audio>>

\* send_json has returned: the next client of the snapshot
CbNext ==
    /\ ~Urgent
    /\ cb.at = "sent"
    /\ cb' = CbIter(cb.origin, cb.todo)
    /\ CommitSent(clients, dicts, engines, frame, ret, {})
    /\ UNCHANGED <<made, pc, active_connections, audio_stats, wid, client_state, audio>>

\* One session: a WebSocket client and the REST endpoint acting on its id; the
\* delivery of results is left to SpecFan.
SessionConns == {"w1"}

Next ==
    \/ \E w \in SessionConns : \E id \in ConnIds(w) : WsConnect(w, id)
    \/ \E w \in SessionConns : WsAccept(w)
    \/ \E w \in SessionConns : WsRegister(w)
    \/ \E w \in SessionConns : RegisterReturn(w)
    \/ \E w \in SessionConns : WsAfterRegister(w)
    \/ \E w \in SessionConns : WsDisconnect(w)
    \/ \E w \in SessionConns : WsReceiveClosed(w)
    \/ \E w \in SessionConns : WsCleanup(w)
    \/ \E p \in SessionConns \cup {"rest"} : UnregisterDelete(p)
    \/ \E w \in SessionConns : WsClosed(w)
    \/ ServiceCleanup
    \/ CleanupNext
    \/ \E w \in SessionConns : \E msg \in ConfigMessages : WsConfigReceived(w, msg)
    \/ \E w \in SessionConns : WsConfig(w)
    \/ \E p \in SessionConns \cup {"rest"} : UpdSwap(p)
    \/ \E p \in SessionConns \cup {"rest"} : UpdReturn(p)
    \/ \E w \in SessionConns : WsConfigReply(w)
    \/ \E id \in Ids : \E body \in RestBodies : RestUpdateConfig(id, body)
    \/ RestReply
    \/ \E w \in SessionConns : WsFeed(w)
    \/ \E w \in SessionConns : FeedForward(w)
    \/ \E w \in SessionConns : FeedReturn(w)
    \/ \E w \in SessionConns : WsFeedDone(w)

Spec == Init /\ [][Next]_vars

\* Several connections, each with its own handler; no reconfiguration.
NextFan ==
    \/ \E w \in Conns : \E id \in ConnIds(w) : WsConnect(w, id)
    \/ \E w \in Conns : WsAccept(w)
    \/ \E w \in Conns : WsRegister(w)
    \/ \E w \in Conns : RegisterReturn(w)
    \/ \E w \in Conns : WsAfterRegister(w)
    \/ \E w \in Conns : WsDisconnect(w)
    \/ \E w \in Conns : WsReceiveClosed(w)
    \/ \E w \in Conns : WsCleanup(w)
    \/ \E w \in Conns : UnregisterDelete(w)
    \/ \E w \in Conns : WsClosed(w)
    \/ \E w \in Conns : WsFeed(w)
    \/ \E w \in Conns : FeedForward(w)
    \/ \E w \in Conns : FeedReturn(w)
    \/ \E w \in Conns : WsFeedDone(w)
    \/ \E e \in Refs : \E empty \in BOOLEAN : CbStart(e, empty)
    \/ \E resp \in CallbackResponses : \E outcome \in SendOutcomes : CbResume(resp, outcome)
    \/ CbNext

SpecFan == Init /\ [][NextFan]_vars

\* One call of process_text with arguments of every kind, examined on its own.
InitText ==
    /\ InitSessions
    /\ audio = Speaker(OneFrame)
    /\ InitContext
    /\ \E args \in TextArgs : tp = [NoTp EXCEPT !.at = "called", !.args = args]

\* process_text is called (lines 56-84): without a model, and for a blank
\* text, it returns at once; otherwise it hands _call_gemini to the executor
\* and suspends.
ProcessTextCall ==
    /\ tp.at = "called"
    /\ tp' = IF ~tp.args.available \/ tp.args.text = <<>> \/ IsBlank(tp.args.text)
             THEN [tp EXCEPT !.at = "returned",
                             !.result = ProcessText(tp.args.available, tp.args.text,
                                                    tp.args.history, tp.args.keywords,
                                                    has_context, tp.args.resp)]
             ELSE [tp EXCEPT !.at = "executor"]
    /\ UNCHANGED <<sessionVars, contextVars>>

\* _call_gemini starts on the executor thread (lines 115-144): it reads
\* has_summary_context() into using_context (line 137) and goes on to build
\* the prompt and to wait for the model (line 202), while the event loop is
\* free to run set_context and clear_context.
CallGeminiStart ==
    /\ tp.at = "executor"
    /\ tp' = [tp EXCEPT !.at = "generate", !.using_context = has_context]
    /\ UNCHANGED <<sessionVars, contextVars>>

\* _call_gemini ends, tagging its result with the using_context it read
\* (lines 253, 265), and process_text resumes with what it returned or raised
\* (lines 94-113).
ProcessTextReturn ==
    /\ tp.at = "generate"
    /\ tp' = [tp EXCEPT !.at = "returned",
                        !.result = ProcessText(tp.args.available, tp.args.text, tp.args.history,
                                               tp.args.keywords, tp.using_context,
                                               tp.args.resp)]
    /\ UNCHANGED <<sessionVars, contextVars>>

\* set_context, with a payload it accepts, and clear_context may run before
\* the call and while it is suspended.
NextText ==
    \/ ProcessTextCall
    \/ CallGeminiStart
    \/ ProcessTextReturn
    \/ \E context_data \in {c \in Payloads : HasAllFields(c)} :
          SetContextStore(context_data) /\ UNCHANGED <<sessionVars, tp>>
    \/ SetContextFlag /\ UNCHANGED <<sessionVars, tp>>
    \/ ClearContextFlag /\ UNCHANGED <<sessionVars, tp>>
    \/ ClearContextStore /\ UNCHANGED <<sessionVars, tp>>

SpecText == InitText /\ [][NextText]_vars

\* The Summary Context Store: POST /summary/context and clear_context on the
\* event loop thread, _call_gemini reading on the executor thread.
NextContext ==
    \/ \E context_data \in Payloads : SetContextStore(context_data) /\ UNCHANGED <<sessionVars, tp>>
    \/ SetContextFlag /\ UNCHANGED <<sessionVars, tp>>
    \/ ClearContextFlag /\ UNCHANGED <<sessionVars, tp>>
    \/ ClearContextStore /\ UNCHANGED <<sessionVars, tp>>
    \/ ReadHasContext /\ UNCHANGED <<sessionVars, tp>>
    \/ RecheckHasContext /\ UNCHANGED <<sessionVars, tp>>
    \/ \E field \in {"keyPoints", "scene", "topic", "summary"} :
          ReadField(field) /\ UNCHANGED <<sessionVars, tp>>

SpecContext == Init /\ [][NextContext]_vars

\* The config messages whose update is carried out.
AudioMessages == {msg \in ConfigMessages : msg.language # "xx" /\ msg.model_type = NONE}

\* The audio path of one session: its client sends a recording, with config
\* messages in between, and cleanup() of the service may run at any time.
InitAudio ==
    /\ InitSessions
    /\ \E recording \in Recordings : audio = Speaker(recording)
    /\ tp = NoTp
    /\ InitContext

NextAudio ==
    \/ \E w \in SessionConns : \E id \in ConnIds(w) : WsConnect(w, id)
    \/ \E w \in SessionConns : WsAccept(w)
    \/ \E w \in SessionConns : WsRegister(w)
    \/ \E w \in SessionConns : RegisterReturn(w)
    \/ \E w \in SessionConns : WsAfterRegister(w)
    \/ \E w \in SessionConns : WsDisconnect(w)
    \/ \E w \in SessionConns : WsReceiveClosed(w)
    \/ \E w \in SessionConns : WsCleanup(w)
    \/ \E p \in SessionConns \cup {"rest"} : UnregisterDelete(p)
    \/ \E w \in SessionConns : WsClosed(w)
    \/ ServiceCleanup
    \/ CleanupNext
    \/ \E w \in SessionConns : WsFeed(w)
    \/ \E w \in SessionConns : FeedForward(w)
    \/ \E w \in SessionConns : FeedReturn(w)
    \/ \E w \in SessionConns : WsFeedDone(w)
    \/ \E w \in SessionConns : \E msg \in AudioMessages : WsConfigReceived(w, msg)
    \/ \E w \in SessionConns : WsConfig(w)
    \/ \E w \in SessionConns : UpdSwap(w)
    \/ \E w \in SessionConns : UpdReturn(w)
    \/ \E w \in SessionConns : WsConfigReply(w)

SpecAudio == InitAudio /\ [][NextAudio]_vars

\* The keyword list of a session: one connection, and update_client_keywords
\* called for either id.
NextKeywords ==
    \/ \E w \in SessionConns : \E id \in ConnIds(w) : WsConnect(w, id)
    \/ \E w \in SessionConns : WsAccept(w)
    \/ \E w \in SessionConns : WsRegister(w)
    \/ \E w \in SessionConns : RegisterReturn(w)
    \/ \E w \in SessionConns : WsAfterRegister(w)
    \/ \E w \in SessionConns : WsDisconnect(w)
    \/ \E w \in SessionConns : WsReceiveClosed(w)
    \/ \E w \in SessionConns : WsCleanup(w)
    \/ \E p \in SessionConns \cup {"rest"} : UnregisterDelete(p)
    \/ \E w \in SessionConns : WsClosed(w)
    \/ ServiceCleanup
    \/ CleanupNext
    \/ \E id \in Ids : \E keywords \in KeywordArgs : UpdateClientKeywords(id, keywords)
    \/ KeywordsReturn

SpecKeywords == Init /\ [][NextKeywords]_vars

\* ------------------------------------------------------------ properties
\* update_client_config / register_client has returned to p, whose next await is not reached yet
UpdateReturned(p) == pc[p] = "upd_ret" /\ ret[p].op = "update"

RegisterReturned(p) == pc[p] = "reg_ret" /\ ret[p].op = "register"

\* p is inside update_client_config, suspended
Updating(p) == pc[p] \in {"upd_stopped", "upd_started", "upd_rolled"}

\* no service call is in progress
Quiescent == \A p \in Procs : frame[p].op \in {NONE, "config"}

\* the call restarted the original engine in its except clause, and the
\* restart succeeded (ok) or failed
RolledBack(p, ok) ==
    /\ UpdateReturned(p)
    /\ frame[p].trace # <<>>
    /\ LET last == frame[p].trace[Len(frame[p].trace)] IN
       /\ last[1] = "start"
       /\ last[2] = frame[p].processor
       /\ (last[3] = "ok") = ok

\* C1: a transcription message is sent only on the connection of the session
\* whose engine recognised the text: no other connected session receives it.
C1_OwnSinkOnly == \A m \in sent : wid[m[1]] = m[2]

\* C2: between service calls every running engine is the handle stored in the
\* registry entry of the id it was constructed for, so each id has at most one
\* running engine and none runs unreferenced.
C2_OneRunningEnginePerSession ==
    Quiescent => \A e \in Refs : engines[e].running => Handle(clients, dicts, engines[e].id) = e

\* C3: update_client_config on a registered session with a language or model
\* outside the supported sets returns False at once, the stored engine handle is
\* the one bound at entry, and the call invoked no stop and no start.
C3_InvalidUpdateKeepsEngine ==
    \A p \in Procs :
        (frame[p].op = "update" /\ frame[p].invalid /\ frame[p].client # 0)
        => /\ UpdateReturned(p)
           /\ ~ret[p].result
           /\ ret[p].handle = frame[p].processor
           /\ frame[p].trace = <<>>

\* C3 witness: a rejected update has returned and the engine it found running still runs.
C3_Witness ==
    \E p \in Procs :
        /\ UpdateReturned(p) /\ frame[p].invalid /\ frame[p].client # 0
        /\ ~ret[p].result
        /\ engines[frame[p].processor].running

\* C4: an update rejected by validation leaves language, model_type,
\* target_language and keywords as get_client_config showed them before the call.
C4_RejectedUpdateKeepsFields ==
    \A p \in Procs :
        (UpdateReturned(p) /\ ~ret[p].result /\ frame[p].client # 0 /\ frame[p].trace = <<>>)
        => ret[p].cfg = ret[p].before

\* C5: an update that returns True invoked exactly one stop, on the old engine,
\* then exactly one start, on the new one, and at its return the stored handle
\* is the new engine and it is running.
C5_SuccessfulUpdateSwaps ==
    \A p \in Procs :
        (UpdateReturned(p) /\ ret[p].result)
        => /\ frame[p].trace = << <<"stop", frame[p].processor, "ok">>,
                                  <<"start", frame[p].new_processor, "ok">> >>
           /\ ret[p].handle = frame[p].new_processor
           /\ ret[p].cfg.processor_running

\* C6: when the replacement failed and the restart of the original succeeded,
\* the update returns False and the stored handle is the original engine, running.
C6_RollbackRestoresOriginal ==
    \A p \in Procs :
        RolledBack(p, TRUE)
        => /\ ~ret[p].result
           /\ ret[p].handle = frame[p].processor
           /\ ret[p].cfg.processor_running

\* C7: when the replacement failed and the restart of the original failed too,
\* the update returns False and get_client_config reports the session's engine
\* as not running.
C7_FailedRollbackNotRunning ==
    \A p \in Procs :
        RolledBack(p, FALSE) => (~ret[p].result /\ ~ret[p].cfg.processor_running)

\* C8: at most one update_client_config per session id is between its start and its return.
C8_OneUpdatePerSession ==
    \A p, q \in Procs :
        (p # q /\ Updating(p) /\ Updating(q)) => frame[p].id # frame[q].id

\* C9: a register_client call that is rejected (the AudioProcessor constructor
\* raised, which is what an unsupported language or model makes it do) returns
\* None, and when it has returned the registry has no entry for the id and no
\* engine exists for the id: with no entry no engine is held for it, and none
\* built for it is running.
C9_RejectedRegisterLeavesNothing ==
    \A p \in Procs :
        (RegisterReturned(p) /\ frame[p].trace = <<>>)
        => /\ ~ret[p].result
           /\ clients[ret[p].id] = 0
           /\ \A e \in Refs : engines[e].id = ret[p].id => ~engines[e].running

\* C10: when register_client or update_client_config returns, the session is
\* absent, or present with a running engine, or present and not running after
\* a rollback that failed.
C10_ResolvedOnReturn ==
    \A p \in Procs :
        (UpdateReturned(p) \/ RegisterReturned(p))
        => \/ ret[p].cfg.error
           \/ ret[p].cfg.processor_running
           \/ RolledBack(p, FALSE)

\* unregister_client has returned to p
UnregisterReturned(p) == pc[p] = "unreg_ret" /\ ret[p].op = "unregister"

\* C11: unregister_client never returns an error: called for an absent id it
\* returns True, invokes nothing on any engine and leaves the id absent; called
\* for a registered id it returns True as well, so that a second call is the
\* no-op of the absent case.
C11_UnregisterIdempotent ==
    \A p \in Procs :
        UnregisterReturned(p)
        => /\ ret[p].result
           /\ frame[p].processor = 0 => (frame[p].trace = <<>> /\ ret[p].cfg = ret[p].before)

\* C12: when unregister_client returns for an id that was registered, the engine
\* was asked to stop and the registry entry, the audio statistics and the
\* connection entry of the id are gone, whether stop() succeeded or not.
C12_UnregisterRemovesSession ==
    \A p \in Procs :
        (UnregisterReturned(p) /\ frame[p].processor # 0)
        => /\ frame[p].trace # <<>>
           /\ frame[p].trace[1][1] = "stop"
           /\ ret[p].cfg.error
           /\ ~audio_stats[ret[p].id].present

\* the id has no registry entry, no connection entry and no statistics
Removed(id) == clients[id] = 0 /\ ~HasKey(active_connections, id) /\ ~audio_stats[id].present

\* the step taken resumes the callback after process_text
CbResumed == cb.at = "enrich" /\ cb' # cb

\* C13: when process_text returns to a callback whose text was recognised for a
\* session that is removed by then, the step sends no message on any
\* connection, leaves the id removed and the callback goes on normally.
C13_LateResultDropped ==
    [][\A id \in Ids :
          (CbResumed /\ cb.origin = id /\ Removed(id))
          => (sent' = {} /\ Removed(id)' /\ cb'.at \in {"idle", "enrich"})]_vars

\* what the program holds for a session id: the registry entry with its engine
\* handle and whether that engine runs, the statistics entry, the connection
SessionState(id) ==
    [entry |-> IF clients[id] = 0 THEN NoDict ELSE dicts[clients[id]],
     running |-> IF clients[id] = 0 THEN FALSE
                 ELSE engines[dicts[clients[id]].processor].running,
     stats |-> audio_stats[id],
     sink |-> Conn(active_connections, id)]

\* the step taken is a step of the handler of connection w: the handler moves
\* on, or stays in its receive loop after a frame or a config message whose
\* handling ended in the except clause of the loop
HandlerStep(w) ==
    \/ pc'[w] # pc[w]
    \/ WsFeed(w)
    \/ WsReceiveClosed(w)
    \/ \E msg \in ConfigMessages : WsConfigReceived(w, msg)

\* C14: whatever a step does, failing or not, the registry entry, engine
\* handle, statistics and connection of a session change only in steps of that
\* session's own handler: handling session A leaves every other session B as it was.
C14_SessionIsolation ==
    [][\A B \in Ids :
          SessionState(B)' # SessionState(B)
          => \E w \in Conns : HandlerStep(w) /\ B \in {wid[w], wid'[w]}]_vars

\* C14 witness: register_client has failed for one session while another
\* session is registered with a running engine and connected.
C14_Witness ==
    \E w \in Conns : \E B \in Ids :
        /\ RegisterReturned(w) /\ ~ret[w].result /\ B # wid[w]
        /\ SessionState(B).running /\ SessionState(B).sink # NoConn

\* process_text has returned
TextReturned == tp.at = "returned"

\* the call got as far as the model adapter: the processor is available, the
\* text is not blank and the prompt could be built
ReachedModel ==
    /\ TextReturned
    /\ tp.args.available /\ tp.args.text # <<>> /\ ~IsBlank(tp.args.text)
    /\ tp.args.history # NoneList /\ tp.args.history # <<>>

\* the keywords of the call that occur in its text, compared case-insensitively
LiteralMatches ==
    IF tp.args.keywords = NoneList THEN <<>>
    ELSE SelectSeq(tp.args.keywords, LAMBDA k : IsSubstring(Lower(k), Lower(tp.args.text)))

\* C15: when the model adapter raises or its output cannot be parsed, process_text
\* returns success False with error set, refined_text the input, translation
\* empty and the booleans False; success True is returned only when the output
\* of the adapter was obtained and parsed.
C15_AdapterFailureDegrades ==
    /\ (ReachedModel /\ tp.args.resp.kind # "json")
       => /\ "success" \in tp.result.keys /\ ~tp.result.success
          /\ "error" \in tp.result.keys /\ tp.result.error # ""
          /\ tp.result.refined_text = tp.args.text
          /\ tp.result.translation = <<>>
          /\ ~tp.result.is_keyword_match /\ ~tp.result.is_continuation
    /\ (TextReturned /\ tp.result.success) => (ReachedModel /\ tp.args.resp.kind = "json")

\* C16: every dict process_text returns carries refined_text, translation,
\* is_keyword_match, matched_keywords, match_reason, is_continuation,
\* continuation_reason, context_enhanced and success.
C16_ResultFullyPopulated ==
    TextReturned => (ResultKeys \ {"error"}) \subseteq tp.result.keys

\* C17: when the model's answer was parsed, a keyword of the list that occurs in
\* the text (case-insensitively) while the model reported no match makes the
\* result a match whose matched_keywords are the literally matching keywords in
\* list order; a match reported by the model is returned with the model's
\* matched_keywords and match_reason.
C17_KeywordOverride ==
    (ReachedModel /\ tp.args.resp.kind = "json")
    => /\ (LiteralMatches # <<>> /\ ~tp.args.resp.obj.is_keyword_match)
          => (tp.result.is_keyword_match /\ tp.result.matched_keywords = LiteralMatches)
       /\ tp.args.resp.obj.is_keyword_match
          => /\ tp.result.is_keyword_match
             /\ tp.result.matched_keywords = tp.args.resp.obj.matched_keywords
             /\ tp.result.match_reason = tp.args.resp.obj.match_reason

\* C17 witness: the model reported no match, two keywords of the list occur in
\* the text in another case, and the result lists both.
C17_Witness ==
    /\ ReachedModel /\ tp.args.resp.kind = "json"
    /\ ~tp.args.resp.obj.is_keyword_match
    /\ Len(LiteralMatches) = 2 /\ LiteralMatches[1] # tp.args.text
    /\ tp.result.is_keyword_match /\ tp.result.matched_keywords = LiteralMatches

\* C18: whenever the adapter was called and a keyword of the call occurs in the
\* text (case-insensitively), the returned result has is_keyword_match True,
\* whatever the adapter did: answer, answer malformed, or fail.
C18_LiteralRecall ==
    (ReachedModel /\ LiteralMatches # <<>>) => tp.result.is_keyword_match

\* C19: when the adapter answers in full, the message sent to a session of
\* language zh and target_language en for a text of its own engine carries
\* source_language zh, target_language en and a refined_text and a translation
\* that are not empty.
C19_EndToEndMessage ==
    [][\A resp \in CallbackResponses :
          (/\ resp.kind = "json" /\ CbResume(resp, "sent") /\ sent' # {}
           /\ cb.cur = cb.origin /\ cb.source_language = "zh" /\ cb.target_language = "en")
          => \A m \in sent' : /\ m[3].source_language = "zh" /\ m[3].target_language = "en"
                              /\ m[3].refined_text # <<>> /\ m[3].translation # <<>>]_vars

\* what the store holds as a whole between calls: the initial and cleared
\* state, and each context set
WholeStates ==
    {[has_context |-> FALSE, context |-> EmptyContext]}
        \cup {[has_context |-> TRUE, context |-> c] : c \in Contexts}

\* the combination the reader has put together
Observed ==
    [has_context |-> reader.has,
     context |-> [scene |-> reader.scene, topic |-> reader.topic,
                  keyPoints |-> reader.keyPoints, summary |-> reader.summary]]

\* C20: a reader that found has_context True and read the four fields has read
\* a combination the store held as a whole: one context set, never the cleared
\* defaults and never fields of two contexts.
C20_ReaderSeesWholeContext ==
    (reader.at = "done" /\ reader.has) => Observed \in WholeStates

\* C21: when an enrichment call has read the store, context_enhanced is True
\* exactly when the prompt includes a rendered context: the tag and the text
\* come from one state of the store, also when set_context or clear_context
\* runs during the call.  reader.has is using_context, the context_enhanced
\* of the result (lines 145, 253, 266); a rendered context, not None, was put
\* into the prompt (lines 138-143) when the reader read all of it.
C21_TagMatchesPrompt ==
    reader.at \in {"done", "none"} => (reader.has <=> (reader.has /\ reader.at = "done"))

\* C22: set_context with a payload that lacks scene, topic, keyPoints or summary
\* returns False and leaves the stored context and has_context as they were.
C22_RejectedSetKeepsContext ==
    [][\A context_data \in Payloads :
          (SetContextStore(context_data) /\ RequiredFields \ context_data.keys # {})
          => (writer'.ret = "False" /\ writer'.at = "idle"
              /\ context' = context /\ has_context' = has_context)]_vars

\* C22 witness: a set_context that lacks topic has returned False while the
\* context of an earlier call is stored and has_context is True.
C22_Witness ==
    /\ writer.at = "idle" /\ writer.ret = "False" /\ "topic" \notin writer.arg.keys
    /\ has_context /\ context \in Contexts /\ context.scene # writer.arg.scene

\* C23: between calls has_context is True exactly when a set_context has
\* succeeded and no clear_context came after the last one that did;
\* get_context_prompt returns None exactly when has_context is False; after
\* clear_context, as before the first set_context, the stored context is the
\* defaults.
C23_HasContextTracksSetAndClear ==
    writer.at = "idle"
    => /\ has_context <=> writer.last = "set"
       /\ (GetContextPrompt(has_context, context) = NoPrompt) <=> ~has_context
       /\ writer.last \in {"none", "clear"} => context = EmptyContext

\* C23 witness: a context was set and cleared again, and a payload refused since.
C23_Witness ==
    /\ writer.at = "idle" /\ writer.last = "clear" /\ writer.ret = "False"
    /\ ~has_context /\ context = EmptyContext

\* the step taken receives a frame in the handler of w and calls process_audio,
\* which runs to its first suspension or, when it fails before that, to its return
FeedCalled(w) == pc[w] = "loop" /\ frame'[w].op = "feed"

\* C24: a call of process_audio for an id that has no registry entry returns
\* False (it does not raise), gives the frame to no engine, and leaves the
\* registry, every client dict and every engine as they were.
C24_UnknownFeedRejected ==
    [][\A w \in Conns :
          (FeedCalled(w) /\ clients[wid[w]] = 0)
          => /\ pc'[w] = "feed_ret"
             /\ ~ret'[w].result
             /\ frame'[w].trace = <<>>
             /\ clients' = clients
             /\ dicts' = dicts
             /\ engines' = engines]_vars

\* process_audio has returned for an id that had no registry entry
C24_Witness ==
    \E w \in Conns : /\ pc[w] = "feed_ret"
                     /\ ret[w].op = "feed"
                     /\ frame[w].client = 0
                     /\ ret[w].before.error
                     /\ ~ret[w].result

\* C25: a frame whose call of process_audio returns False before it was
\* forwarded (unknown id, or start() of the engine raised) changes none of the
\* six statistics of any session.
C25_FailedFeedKeepsStats ==
    [][\A w \in Conns :
          (FeedCalled(w) /\ pc'[w] = "feed_ret" /\ ~ret'[w].result)
          => audio_stats' = audio_stats]_vars

\* C26: the statistics of a session are those of its accepted frames: a frame
\* that goes on to the engine adds one to total_chunks and its size to
\* total_bytes, raises max_chunk_size and lowers min_chunk_size to its size
\* where it lies beyond them, and leaves first_chunk_time <= last_chunk_time; a
\* frame whose call fails before the forward leaves the statistics as they were.
C26_StatsOfAcceptedFrames ==
    [][\A w \in Conns :
          FeedCalled(w)
          => LET old == audio_stats[wid[w]]
                 new == audio_stats'[wid[w]]
                 size == Head(audio[w]).size
             IN
             IF pc'[w] # "feed_ret"
             THEN /\ new.total_chunks = old.total_chunks + 1
                  /\ new.total_bytes = old.total_bytes + size
                  /\ new.max_chunk_size = (IF size > old.max_chunk_size THEN size
                                                                        ELSE old.max_chunk_size)
                  /\ new.min_chunk_size = (IF size < old.min_chunk_size THEN size
                                                                        ELSE old.min_chunk_size)
                  /\ new.first_chunk_time # NoTime
                  /\ new.first_chunk_time <= new.last_chunk_time
             ELSE new = old]_vars

\* C27: an engine is given a frame only by the handler of its session, the
\* engine is the one the registry held for the session when process_audio was
\* called, the frame is the first one of the client's frames not yet received,
\* and no engine of the session was given that frame or a later one before,
\* whichever engine the session has by then.  A step gives a frame to a
\* processor, which takes it, when it leads from the receive loop or from the
\* await of start() to the await of the processor's process_audio.
C27_FramesInArrivalOrder ==
    [][/\ \A w \in Conns :
             FeedCalled(w)
             => /\ frame'[w].n = Head(audio[w]).n
                /\ audio'[w] = Tail(audio[w])
                /\ frame'[w].processor = Handle(clients, dicts, wid[w])
       /\ \A e \in Refs :
             (engines'[e].heard # 0 /\ engines'[e].heard # engines[e].heard)
             => \E w \in Conns :
                   /\ pc[w] \in {"loop", "feed_started"}
                   /\ pc'[w] = "feed_fed"
                   /\ e = frame'[w].processor
                   /\ pc[w] = "loop" => e = Handle(clients, dicts, wid[w])
                   /\ engines'[e].heard = frame'[w].n
                   /\ pc[w] = "feed_started" => frame'[w].n = frame[w].n
                   /\ \A other \in Refs :
                         engines[other].id = engines[e].id
                         => engines[other].heard < engines'[e].heard]_vars

\* the last frame of the recording was given to an engine that a config update
\* constructed, in a session that received every frame
C27_Witness ==
    \E w \in Conns :
       /\ pc[w] = "feed_ret"
       /\ ret[w].result
       /\ ret[w].cfg.language = "en"
       /\ audio_stats[wid[w]].total_chunks = MaxFrames
       /\ engines[ret[w].handle].heard = MaxFrames

\* the config carries target_language and nothing else
OnlyTargetLanguage(config) ==
    /\ config.language = NONE /\ config.model_type = NONE /\ config.model = NONE
    /\ config.target_language # NONE

\* C28: a config update that carries only target_language, from a client config
\* message or from the REST endpoint, leaves the language and the model_type of
\* the session's registry entry as they were.
C28_UnspecifiedFieldsKept ==
    [][/\ \A w \in Conns :
             (/\ pc[w] = "cfg_ack"
              /\ pc'[w] # "cfg_ack"
              /\ OnlyTargetLanguage(frame[w].msg)
              /\ clients[wid[w]] # 0)
             => /\ dicts'[clients[wid[w]]].language = dicts[clients[wid[w]]].language
                /\ dicts'[clients[wid[w]]].model_type = dicts[clients[wid[w]]].model_type
       /\ \A id \in Ids : \A body \in RestBodies :
             (RestUpdateConfig(id, body) /\ OnlyTargetLanguage(body))
             => /\ dicts'[clients[id]].language = dicts[clients[id]].language
                /\ dicts'[clients[id]].model_type = dicts[clients[id]].model_type]_vars

\* C29: for a client config message the handler first sends config_received
\* with status processing, in a step that changes no registry entry, client
\* dict or engine; update_client_config is called only after that; and when the
\* call has returned the handler sends one config_updated, whose status is
\* success when the call returned True and error when it returned False; it is
\* the one message of that step unless send_json raised, and then the step
\* sends no config_updated.  Neither message is sent in any other step.
C29_ConfigReplies ==
    [][\A w \in Conns :
          /\ (pc[w] = "loop" /\ pc'[w] = "cfg_ack")
             => /\ sent' = {<<w, wid[w], [event |-> "config_received", status |-> "processing"]>>}
                /\ clients' = clients
                /\ dicts' = dicts
                /\ engines' = engines
          /\ (frame[w].op # "update" /\ frame'[w].op = "update") => pc[w] = "cfg_ack"
          /\ (pc[w] = "upd_ret" /\ pc'[w] # "upd_ret")
             => LET reply == <<w, wid[w],
                               [event |-> "config_updated",
                                status |-> IF ret[w].result THEN "success" ELSE "error"]>>
                IN  /\ \A m \in sent' : m[3].event = "config_updated" => m = reply
                    /\ (pc'[w] = "loop" /\ <<w, wid[w], ErrorMessage>> \notin sent')
                       => sent' = {reply}
          /\ \A m \in sent' :
                m[1] = w => /\ m[3].event = "config_updated" => pc[w] = "upd_ret"
                            /\ m[3].event = "config_received" => pc[w] = "loop"]_vars

\* the handler has answered a config message whose update failed
C29_Witness ==
    \E w \in Conns :
       /\ pc[w] = "loop"
       /\ \E m \in sent : m[1] = w /\ m[3].event = "config_updated" /\ m[3].status = "error"

\* C30: update_client_keywords for a registered id returns True and replaces
\* the keyword list of the id's client dict, nothing else: the other fields of
\* the dict (the processor among them), the other dicts, the registry and the
\* engines are as before and no engine operation was invoked; for an id that
\* is not registered it returns False and changes nothing.
C30_KeywordsOnly ==
    [][\A id \in Ids : \A keywords \in KeywordArgs :
          UpdateClientKeywords(id, keywords)
          => /\ clients' = clients
             /\ engines' = engines
             /\ frame'["rest"].trace = <<>>
             /\ audio_stats' = audio_stats
             /\ active_connections' = active_connections
             /\ IF clients[id] # 0
                THEN /\ ret'["rest"].result
                     /\ dicts' = [dicts EXCEPT ![clients[id]].keywords = keywords]
                ELSE /\ ~ret'["rest"].result
                     /\ dicts' = dicts]_vars

\* update_client_keywords has returned True and the list is another one
C30_Witness ==
    /\ pc["rest"] = "kw_ret"
    /\ ret["rest"].op = "keywords"
    /\ ret["rest"].result
    /\ ret["rest"].cfg.keywords # ret["rest"].before.keywords

\* C31: while update_client_config is in progress and when it has returned,
\* the registry entry holds the processor the call constructed only if the
\* call's start() of that processor has succeeded.
C31_SwapAfterStart ==
    \A p \in Procs :
       (/\ frame[p].op = "update"
        /\ frame[p].new_processor # 0
        /\ Handle(clients, dicts, frame[p].id) = frame[p].new_processor)
       => \E i \in DOMAIN frame[p].trace :
             frame[p].trace[i] = <<"start", frame[p].new_processor, "ok">>

\* C32: a call of process_audio for a registered id invokes start() on the
\* session's processor once when the processor is not running and not at all
\* when it is, before it gives the frame to the processor; the frame is given
\* to the processor only when the processor is running after that attempt,
\* that is after a start() that succeeded; and when start() did not bring the
\* processor up, by returning failure or by raising, the call returns False.
C32_RestartOnceThenForward ==
    [][\A w \in Conns :
          /\ (FeedCalled(w) /\ clients[wid[w]] # 0)
             => LET e == Handle(clients, dicts, wid[w])
                    tr == frame'[w].trace
                IN  IF engines[e].running
                    THEN Len(tr) = 1 /\ tr[1][1] = "feed" /\ tr[1][2] = e
                    ELSE Len(tr) = 1 /\ tr[1][1] = "start" /\ tr[1][2] = e
          /\ (pc[w] = "feed_started" /\ pc'[w] # "feed_started")
             => /\ Len(frame'[w].trace) = 2
                /\ frame'[w].trace[1] = <<"start", frame[w].processor, "ok">>
                /\ frame'[w].trace[2][1] = "feed"
                /\ frame'[w].trace[2][2] = frame[w].processor
          /\ (/\ pc[w] # "feed_ret"
              /\ pc'[w] = "feed_ret"
              /\ frame'[w].trace # <<>>
              /\ frame'[w].trace[1][1] = "start"
              /\ frame'[w].trace[1][3] # "ok")
             => ~ret'[w].result]_vars

\* C33: when process_text returns to the callback and the connection stored
\* for the client of the iteration is not in state CONNECTED, the step sends
\* nothing, neither the message nor the fallback, awaits no send, and goes on
\* with the next client of the snapshot, in which this client does not occur
\* again.
C33_ClosedSinkSkipped ==
    [][\A w \in Conns :
          (/\ CbResumed
           /\ Conn(active_connections, cb.cur) = w
           /\ ClientState(w) # "CONNECTED")
          => /\ sent' = {}
             /\ cb' = CbIter(cb.origin, cb.todo)
             /\ \A i \in DOMAIN cb.todo : cb.todo[i] # cb.cur]_vars

\* the callback is about to deliver to a client whose stored connection is
\* disconnected
C33_Witness ==
    /\ ~Urgent
    /\ cb.at = "enrich"
    /\ \E w \in Conns : /\ Conn(active_connections, cb.cur) = w
                        /\ ClientState(w) = "DISCONNECTED"

\* C34: a delivery to a connected client sends at most one message.  When
\* send_json of the enriched message succeeds that message is the one sent;
\* when it raises, the fallback is attempted once and what is sent, if
\* anything, is the fallback alone, which carries the text and no enrichment
\* field; when the fallback raises too nothing is sent.  In each case the
\* step leaves the registry, the client dicts, the engines and every handler
\* where they were.
C34_OneFallback ==
    [][\A resp \in CallbackResponses : \A outcome \in SendOutcomes :
          (/\ CbResume(resp, outcome)
           /\ Conn(active_connections, cb.cur) # NoConn
           /\ ClientState(Conn(active_connections, cb.cur)) = "CONNECTED")
          => /\ Cardinality(sent') <= 1
             /\ \A m \in sent' :
                   /\ m[1] = Conn(active_connections, cb.cur)
                   /\ m[3].event = "transcription"
                   /\ m[3].text = CallbackText
                   /\ IF outcome = "sent"
                      THEN m[3].kind = "enriched"
                      ELSE /\ m[3].kind = "raw"
                           /\ m[3].refined_text = <<>>
                           /\ m[3].translation = <<>>
                           /\ m[3].source_language = NONE
                           /\ m[3].target_language = NONE
             /\ (sent' = {}) <=> (outcome = "lost")
             /\ clients' = clients
             /\ dicts' = dicts
             /\ engines' = engines
             /\ pc' = pc]_vars

\* the fallback was delivered to a client whose session is registered with
\* its engine running
C34_Witness ==
    /\ cb.at = "sent"
    /\ \E m \in sent : /\ m[3].event = "transcription"
                       /\ m[3].kind = "raw"
                       /\ clients[wid[m[1]]] # 0
                       /\ engines[Handle(clients, dicts, wid[m[1]])].running

\* C35: when a service call has returned for an id that is registered, the
\* language and model_type that get_client_config reports for the id are those
\* the processor stored for it was constructed with.
C35_ConfigMatchesEngine ==
    \A p \in Procs :
       (/\ pc[p] \in {"reg_ret", "upd_ret", "unreg_ret", "feed_ret", "kw_ret"}
        /\ ~ret[p].cfg.error)
       => /\ ret[p].cfg.language = engines[Handle(clients, dicts, ret[p].id)].language
          /\ ret[p].cfg.model_type = engines[Handle(clients, dicts, ret[p].id)].model_type

\* C36: while the handler of a connection is in its receive loop, the
\* connection stored in active_connections for its client id is this
\* connection, and the id has a statistics entry and a registry entry.
C36_LoopOwnsEntries ==
    \A w \in Conns :
       pc[w] = "loop"
       => /\ Conn(active_connections, wid[w]) = w
          /\ audio_stats[wid[w]].present
          /\ clients[wid[w]] # 0

\* C37: once every handler has returned, its cleanup has been carried out: no
\* id is left in active_connections or in audio_stats, and no engine is running.
C37_HandlerEndCleansUp ==
    (\A w \in Conns : pc[w] = "closed")
    => /\ active_connections = <<>>
       /\ \A id \in Ids : ~audio_stats[id].present
       /\ \A e \in Refs : ~engines[e].running
====
